---- MODULE Spec2Model ----
(***************************************************************************)
(* Effect execution core of tachyonfx: effect timers, the default          *)
(* Shader::process, the Dissolve leaf shader, the TemporaryEffect /        *)
(* NeverComplete wrappers, the sequence / parallel containers, the buffer  *)
(* blit, the cell filters and cell iteration.  Durations are whole ticks;  *)
(* the interpolation curve is linear and alpha is kept as the exact        *)
(* fraction num/den.                                                       *)
(***************************************************************************)
EXTENDS Integers, Sequences, FiniteSets, TLC

VARIABLES
    fx,         \* the effect tree under test (the Effect owned by the host)
    delivered,  \* time handed to fx.process since construction or the last reset
    calls,      \* number of process calls made on fx
    ret,        \* Option<Duration> returned by the last process call
    lastDelta,  \* duration argument of the last process call
    lastArea,   \* area argument of the last process call
    prevDone,   \* fx.done() as it was right before the last process call
    somes,      \* number of process calls that returned Some since construction / reset
    op,         \* the operation that produced the current state
    toggles,    \* number of reverse() and reset() calls made on fx
    blit,       \* inputs and result of one blit_buffer_region call
    sel,        \* a cell selection: the filter, its CellPredicate and the is_valid result
    scr,        \* a buffer of cells under a leaf effect, frame by frame
    call        \* the constructor call that built fx, with its arguments

vars == <<fx, delivered, calls, ret, lastDelta, lastArea, prevDone, somes, op, toggles, blit, sel, scr, call>>

fxVars == <<fx, delivered, calls, ret, lastDelta, lastArea, prevDone, somes, op, toggles>>

----------------------------------------------------------------------------
(* Bounds of the model *)

MaxDur == 3         \* longest timer, in ticks
MaxDelta == 3       \* longest duration handed to one process call
MaxCalls == 4       \* process calls per run
MaxToggles == 2     \* reverse() / reset() calls per run
Areas == {"a1", "a2"}   \* the areas a host passes to process

Durations == 0..MaxDur
ChildDurations == 1..MaxDur
Deltas == 0..MaxDelta

----------------------------------------------------------------------------
(* Option<Duration> *)

NoneD == [some |-> FALSE, val |-> 0]
Some(d) == [some |-> TRUE, val |-> d]

Min(a, b) == IF a <= b THEN a ELSE b
Max(a, b) == IF a >= b THEN a ELSE b

----------------------------------------------------------------------------
(* EffectTimer {elapsed, total, reversed}; the curve is linear *)

EffectTimer(total) == [elapsed |-> 0, total |-> total, reversed |-> FALSE]

TimerDone(t) == t.elapsed >= t.total

\* process(delta): advance elapsed, clamp to total, Some(surplus) only on the
\* call that completes the timer
TimerProcess_unclamped(t, delta) ==
    IF TimerDone(t)
    THEN [timer |-> [t EXCEPT !.elapsed = t.elapsed + delta], overflow |-> NoneD]
    ELSE IF t.elapsed + delta >= t.total
         THEN [timer |-> [t EXCEPT !.elapsed = t.elapsed + delta],
               overflow |-> Some(t.elapsed + delta - t.total)]
         ELSE [timer |-> [t EXCEPT !.elapsed = t.elapsed + delta], overflow |-> NoneD]

TimerProcess(t, delta) ==
    IF TimerDone(t)
    THEN [timer |-> t, overflow |-> NoneD]
    ELSE IF t.elapsed + delta >= t.total
         THEN [timer |-> [t EXCEPT !.elapsed = t.total],
               overflow |-> Some(t.elapsed + delta - t.total)]
         ELSE [timer |-> [t EXCEPT !.elapsed = t.elapsed + delta], overflow |-> NoneD]

\* alpha = elapsed/total, 1 - elapsed/total when reversed; a zero timer is at
\* its final alpha
TimerAlpha(t) ==
    IF t.total = 0
    THEN [num |-> IF t.reversed THEN 0 ELSE 1, den |-> 1]
    ELSE [num |-> IF t.reversed THEN t.total - t.elapsed ELSE t.elapsed, den |-> t.total]

TimerReversed(t) == [t EXCEPT !.reversed = ~t.reversed]

TimerReset(t) == [t EXCEPT !.elapsed = 0]

AlphaOne == [num |-> 1, den |-> 1]

----------------------------------------------------------------------------
(* Leaf shaders.  A Dissolve owns a timer; a shader that keeps the trait's *)
(* default timer_mut has none.  execs, execAlpha, execArea, fed and procs  *)
(* record what execute and process were called with.                       *)

NoArea == "none"    \* Option<Rect>::None

Dissolve(total, area) ==
    [kind |-> "dissolve", hasTimer |-> TRUE, timer |-> EffectTimer(total), area |-> area,
     execs |-> 0, execAlpha |-> AlphaOne, execArea |-> NoArea, fed |-> 0, procs |-> 0]

\* Sleep::new: a timer and nothing to draw
Sleep(total) ==
    [kind |-> "sleep", hasTimer |-> TRUE, timer |-> EffectTimer(total), area |-> NoArea,
     execs |-> 0, execAlpha |-> AlphaOne, execArea |-> NoArea, fed |-> 0, procs |-> 0]

Timerless ==
    [kind |-> "timerless", hasTimer |-> FALSE, timer |-> EffectTimer(0), area |-> NoArea,
     execs |-> 0, execAlpha |-> AlphaOne, execArea |-> NoArea, fed |-> 0, procs |-> 0]

\* Shader::timer_mut
TimerMut(sh) == [some |-> sh.hasTimer, timer |-> sh.timer]

\* execute(alpha, area, buf) of a leaf: one more execution, with these arguments
Execute(sh, alpha, area) ==
    [sh EXCEPT !.execs = sh.execs + 1, !.execAlpha = alpha, !.execArea = area]

DissolveDone_strict(sh) == sh.timer.elapsed > sh.timer.total

DissolveDone(sh) == TimerDone(sh.timer)

\* the default Shader::process
ShaderProcess_stale(sh, duration, area) ==
    LET tm == TimerMut(sh)
        r == IF tm.some THEN TimerProcess(tm.timer, duration)
                        ELSE [timer |-> sh.timer, overflow |-> NoneD]
        alpha == IF tm.some THEN TimerAlpha(tm.timer) ELSE AlphaOne
        sh1 == [sh EXCEPT !.timer = r.timer,
                          !.fed = sh.fed + duration, !.procs = sh.procs + 1]
    IN [effect |-> Execute(sh1, alpha, area), overflow |-> r.overflow]

ShaderProcess_dropped(sh, duration, area) ==
    LET tm == TimerMut(sh)
        r == IF tm.some THEN TimerProcess(tm.timer, duration)
                        ELSE [timer |-> sh.timer, overflow |-> NoneD]
        alpha == IF tm.some THEN TimerAlpha(r.timer) ELSE AlphaOne
        sh1 == [sh EXCEPT !.timer = r.timer,
                          !.fed = sh.fed + duration, !.procs = sh.procs + 1]
    IN [effect |-> Execute(sh1, alpha, area),
        overflow |-> IF r.overflow.some THEN Some(0) ELSE NoneD]

ShaderProcess_swallowed(sh, duration, area) ==
    LET tm == TimerMut(sh)
        r == IF tm.some THEN TimerProcess(tm.timer, duration)
                        ELSE [timer |-> sh.timer, overflow |-> NoneD]
        alpha == IF tm.some THEN TimerAlpha(r.timer) ELSE AlphaOne
        sh1 == [sh EXCEPT !.timer = r.timer,
                          !.fed = sh.fed + duration, !.procs = sh.procs + 1]
    IN [effect |-> Execute(sh1, alpha, area), overflow |-> NoneD]

\* a process that executes only while the timer is running
ShaderProcess_idle(sh, duration, area) ==
    LET tm == TimerMut(sh)
        r == IF tm.some THEN TimerProcess(tm.timer, duration)
                        ELSE [timer |-> sh.timer, overflow |-> NoneD]
        alpha == IF tm.some THEN TimerAlpha(r.timer) ELSE AlphaOne
        sh1 == [sh EXCEPT !.timer = r.timer,
                          !.fed = sh.fed + duration, !.procs = sh.procs + 1]
    IN [effect |-> IF tm.some /\ TimerDone(tm.timer) THEN sh1 ELSE Execute(sh1, alpha, area),
        overflow |-> r.overflow]

ShaderProcess(sh, duration, area) ==
    LET tm == TimerMut(sh)
        r == IF tm.some THEN TimerProcess(tm.timer, duration)
                        ELSE [timer |-> sh.timer, overflow |-> NoneD]
        alpha == IF tm.some THEN TimerAlpha(r.timer) ELSE AlphaOne
        sh1 == [sh EXCEPT !.timer = r.timer,
                          !.fed = sh.fed + duration, !.procs = sh.procs + 1]
    IN [effect |-> Execute(sh1, alpha, area), overflow |-> r.overflow]

\* a reverse that sets the direction instead of toggling it
ShaderReverse_set(sh) ==
    IF TimerMut(sh).some THEN [sh EXCEPT !.timer.reversed = TRUE] ELSE sh

\* the default Shader::reverse
ShaderReverse(sh) ==
    IF TimerMut(sh).some THEN [sh EXCEPT !.timer = TimerReversed(sh.timer)] ELSE sh

\* the default Shader::reset, for a shader that has a timer
ShaderReset(sh) == [sh EXCEPT !.timer = TimerReset(sh.timer)]

\* a reset that never fails
ShaderResetPanics_silent(sh) == FALSE

\* the default Shader::reset panics when timer_mut gives no timer
ShaderResetPanics(sh) == ~TimerMut(sh).some

----------------------------------------------------------------------------
(* Effect trees: wrappers and containers own their children *)

TemporaryEffect(effect, duration) ==
    [kind |-> "temporary", effect |-> effect, duration |-> EffectTimer(duration)]

NeverComplete(effect) == [kind |-> "never_complete", effect |-> effect]

SequentialEffect(effects) == [kind |-> "sequence", effects |-> effects, current |-> 1]

ParallelEffect(effects) == [kind |-> "parallel", effects |-> effects]

\* PingPong::new: the forward pass first; reversals counts the reverse() calls
\* made on the child
PingPong(effect) ==
    [kind |-> "ping_pong", effect |-> effect, is_reversing |-> FALSE, reversals |-> 0]

\* fx::with_duration, fx::never_complete, fx::timed_never_complete, fx::sequence,
\* fx::parallel
with_duration(duration, effect) == TemporaryEffect(effect, duration)

never_complete(effect) == NeverComplete(effect)

timed_never_complete(duration, effect) == TemporaryEffect(never_complete(effect), duration)

sequence(effects) == SequentialEffect(effects)

parallel(effects) == ParallelEffect(effects)

\* RepeatMode::Forever, RepeatMode::Times(n), RepeatMode::Duration(d)
Forever == [mode |-> "Forever", n |-> 0]

Times(n) == [mode |-> "Times", n |-> n]

DurationMode(d) == [mode |-> "Duration", n |-> d]

\* Repeat::new: no completion yet, no time accumulated
Repeat(effect, mode) ==
    [kind |-> "repeat", effect |-> effect, mode |-> mode, completions |-> 0, elapsed |-> 0]

\* Prolong::new(ProlongPosition::Start, duration, effect)
Prolong(position, duration, effect) ==
    [kind |-> "prolong", position |-> position, effect |-> effect,
     additional |-> EffectTimer(duration)]

repeat(effect, mode) == Repeat(effect, mode)

\* a repeating that stops after one cycle
repeating_once(effect) == repeat(effect, Times(1))

repeating(effect) == repeat(effect, Forever)

\* a prolong_start that adds no time
prolong_start_none(duration, effect) == Prolong("Start", 0, effect)

prolong_start(duration, effect) == Prolong("Start", duration, effect)

sleep(duration) == Sleep(duration)

\* a delay that runs the effect first and sleeps afterwards
delay_after(duration, effect) == sequence(<<effect, sleep(duration)>>)

delay(duration, effect) == sequence(<<sleep(duration), effect>>)

\* a ping-pong that starts in its backward pass
ping_pong_backward(effect) == [PingPong(effect) EXCEPT !.is_reversing = TRUE]

ping_pong(effect) == PingPong(effect)

UnwrapOr(opt, area) == IF opt = NoArea THEN area ELSE opt

IsLeaf(e) == e.kind \in {"dissolve", "timerless"}

RECURSIVE EffectDone(_)
RECURSIVE EffectArea(_)
RECURSIVE EffectProcess(_, _, _)
RECURSIVE SequentialRun(_, _, _)
RECURSIVE ParallelRun(_, _, _, _, _)
RECURSIVE PingPongProcess(_, _, _)
RECURSIVE RepeatProcess(_, _, _)
RECURSIVE ProlongProcess(_, _, _)

\* the default Shader::reset over TemporaryEffect::timer_mut, the outer timer
TemporaryReset(e) == [e EXCEPT !.duration = TimerReset(e.duration)]

\* TemporaryEffect::done
TemporaryDone_both(e) == TimerDone(e.duration) /\ EffectDone(e.effect)

TemporaryDone_inner(e) == EffectDone(e.effect)

TemporaryDone(e) == TimerDone(e.duration) \/ EffectDone(e.effect)

SequentialDone(e) == e.current > Len(e.effects)

\* Repeat: Times(n) stops after n completions, Duration(d) once d has elapsed
RepeatDone(e) ==
    CASE e.mode.mode = "Forever" -> FALSE
      [] e.mode.mode = "Times" -> e.completions >= e.mode.n
      [] e.mode.mode = "Duration" -> e.elapsed >= e.mode.n

\* Prolong at the start: the extra duration first, then the child
ProlongDone(e) == TimerDone(e.additional) /\ EffectDone(e.effect)

\* PingPong: done only after the backward pass completes
PingPongDone(e) == e.is_reversing /\ EffectDone(e.effect)

ParallelDone(e) == \A i \in 1..Len(e.effects) : EffectDone(e.effects[i])

EffectDone(e) ==
    CASE e.kind = "dissolve" -> DissolveDone(e)
      [] e.kind = "timerless" -> FALSE
      [] e.kind = "sleep" -> TimerDone(e.timer)
      [] e.kind = "ping_pong" -> PingPongDone(e)
      [] e.kind = "repeat" -> RepeatDone(e)
      [] e.kind = "prolong" -> ProlongDone(e)
      [] e.kind = "temporary" -> TemporaryDone(e)
      [] e.kind = "never_complete" -> FALSE
      [] e.kind = "sequence" -> SequentialDone(e)
      [] e.kind = "parallel" -> ParallelDone(e)

EffectRunning(e) == ~EffectDone(e)

EffectArea(e) ==
    CASE IsLeaf(e) -> e.area
      [] e.kind \in {"temporary", "never_complete"} -> EffectArea(e.effect)
      [] OTHER -> NoArea

\* TemporaryEffect::process
TemporaryProcess(e, duration, area) ==
    LET remaining == TimerProcess(e.duration, duration)
        effect_area == UnwrapOr(EffectArea(e.effect), area)
        inner == EffectProcess(e.effect, duration, effect_area)
    IN [effect |-> [e EXCEPT !.duration = remaining.timer, !.effect = inner.effect],
        overflow |-> remaining.overflow]

\* NeverComplete: the wrapped effect is processed on every call, nothing is reported
NeverCompleteProcess(e, duration, area) ==
    LET inner == EffectProcess(e.effect, duration, area)
    IN [effect |-> [e EXCEPT !.effect = inner.effect], overflow |-> NoneD]

\* SequentialEffect: the active effect gets the duration; when it completes, its
\* overflow goes to the next effect in the same call
SequentialRun(e, duration, area) ==
    IF SequentialDone(e)
    THEN [effect |-> e, overflow |-> Some(duration)]
    ELSE LET r == EffectProcess(e.effects[e.current], duration, area)
             e1 == [e EXCEPT !.effects[e.current] = r.effect]
         IN IF r.overflow.some
            THEN SequentialRun([e1 EXCEPT !.current = e.current + 1], r.overflow.val, area)
            ELSE [effect |-> e1, overflow |-> NoneD]

SequentialProcess(e, duration, area) ==
    IF SequentialDone(e)
    THEN [effect |-> e, overflow |-> NoneD]
    ELSE SequentialRun(e, duration, area)

\* ParallelEffect: every effect that is not done gets the same duration; the
\* overflow is the smallest one reported, and only when all effects are done
ParallelRun(e, i, duration, area, least) ==
    IF i > Len(e.effects)
    THEN [effect |-> e, overflow |-> IF ParallelDone(e) THEN least ELSE NoneD]
    ELSE IF EffectDone(e.effects[i])
         THEN ParallelRun(e, i + 1, duration, area, least)
         ELSE LET r == EffectProcess(e.effects[i], duration, area)
                  l == IF r.overflow.some /\ (~least.some \/ r.overflow.val < least.val)
                       THEN r.overflow ELSE least
              IN ParallelRun([e EXCEPT !.effects[i] = r.effect], i + 1, duration, area, l)

ParallelProcess(e, duration, area) == ParallelRun(e, 1, duration, area, NoneD)

\* Sleep::process: the timer advances, nothing is executed
SleepProcess(e, duration) ==
    LET r == TimerProcess(e.timer, duration)
    IN [effect |-> [e EXCEPT !.timer = r.timer,
                             !.fed = e.fed + duration, !.procs = e.procs + 1],
        overflow |-> r.overflow]

\* PingPong::process: when the forward pass completes the child is reversed and
\* started again, and the surplus of the call goes into the backward pass
PingPongProcess(e, duration, area) ==
    LET r == EffectProcess(e.effect, duration, area)
    IN IF r.overflow.some /\ ~e.is_reversing
       THEN LET back == ShaderReset(ShaderReverse(r.effect))
                r2 == EffectProcess(back, r.overflow.val, area)
            IN [effect |-> [e EXCEPT !.effect = r2.effect, !.is_reversing = TRUE,
                                     !.reversals = e.reversals + 1],
                overflow |-> r2.overflow]
       ELSE [effect |-> [e EXCEPT !.effect = r.effect], overflow |-> r.overflow]

\* Repeat::process: the child gets the duration; on its completion it is reset
\* and the completion is counted; the time delivered accumulates
RepeatProcess(e, duration, area) ==
    IF RepeatDone(e)
    THEN [effect |-> e, overflow |-> NoneD]
    ELSE LET r == EffectProcess(e.effect, duration, area)
             e1 == [e EXCEPT !.effect = IF r.overflow.some THEN ShaderReset(r.effect)
                                                           ELSE r.effect,
                             !.completions = IF r.overflow.some THEN e.completions + 1
                                                                ELSE e.completions,
                             !.elapsed = e.elapsed + duration]
         IN [effect |-> e1,
             overflow |-> CASE ~RepeatDone(e1) -> NoneD
                            [] e.mode.mode = "Duration" -> Some(e.elapsed + duration - e.mode.n)
                            [] OTHER -> r.overflow]

\* Prolong::process at the start: while the extra duration runs the child is
\* processed with zero duration; the surplus of the call that completes it and
\* every later duration go to the child
ProlongProcess(e, duration, area) ==
    IF TimerDone(e.additional)
    THEN LET r == EffectProcess(e.effect, duration, area)
         IN [effect |-> [e EXCEPT !.effect = r.effect], overflow |-> r.overflow]
    ELSE LET held == TimerProcess(e.additional, duration)
             given == IF held.overflow.some THEN held.overflow.val ELSE 0
             r == EffectProcess(e.effect, given, area)
         IN [effect |-> [e EXCEPT !.effect = r.effect, !.additional = held.timer],
             overflow |-> IF held.overflow.some THEN r.overflow ELSE NoneD]

\* Effect::process: dispatch to the shader's process
EffectProcess(e, duration, area) ==
    CASE IsLeaf(e) -> ShaderProcess(e, duration, area)
      [] e.kind = "sleep" -> SleepProcess(e, duration)
      [] e.kind = "ping_pong" -> PingPongProcess(e, duration, area)
      [] e.kind = "repeat" -> RepeatProcess(e, duration, area)
      [] e.kind = "prolong" -> ProlongProcess(e, duration, area)
      [] e.kind = "temporary" -> TemporaryProcess(e, duration, area)
      [] e.kind = "never_complete" -> NeverCompleteProcess(e, duration, area)
      [] e.kind = "sequence" -> SequentialProcess(e, duration, area)
      [] e.kind = "parallel" -> ParallelProcess(e, duration, area)

----------------------------------------------------------------------------
(* The effects a host builds, and the host driving one of them *)

Leaves == {Dissolve(d, NoArea) : d \in Durations}

Children == {Dissolve(d, NoArea) : d \in ChildDurations}

Wrapped == {Dissolve(d, a) : d \in Durations, a \in {NoArea, "a2"}}

Effects ==
    Leaves \cup {Timerless}
    \cup {sequence(<<a, b>>) : a \in Children, b \in Children}
    \cup {parallel(<<a, b>>) : a \in Children, b \in Children}
    \cup {with_duration(d, e) : d \in Durations, e \in Wrapped}
    \cup {never_complete(e) : e \in Leaves}
    \cup {timed_never_complete(d, e) : d \in Durations, e \in Leaves}

NoBlit == [phase |-> "none"]

NoSelection == [phase |-> "none"]

NoScreen == [phase |-> "none"]

NoCall == [fn |-> "none"]

Init ==
    /\ fx \in Effects
    /\ delivered = 0
    /\ calls = 0
    /\ ret = NoneD
    /\ lastDelta = 0
    /\ lastArea = NoArea
    /\ prevDone = FALSE
    /\ somes = 0
    /\ op = "new"
    /\ toggles = 0
    /\ blit = NoBlit
    /\ sel = NoSelection
    /\ scr = NoScreen
    /\ call = NoCall

\* the host calls effect.process(duration, buf, area)
Process(duration, area) ==
    /\ op # "panic"
    /\ calls < MaxCalls
    /\ LET r == EffectProcess(fx, duration, area)
       IN /\ fx' = r.effect
          /\ ret' = r.overflow
          /\ somes' = IF r.overflow.some THEN somes + 1 ELSE somes
    /\ prevDone' = EffectDone(fx)
    /\ delivered' = delivered + duration
    /\ calls' = calls + 1
    /\ lastDelta' = duration
    /\ lastArea' = area
    /\ op' = "process"
    /\ UNCHANGED <<toggles, blit, sel, scr, call>>

\* the host calls reverse() on a leaf shader
Reverse ==
    /\ op # "panic"
    /\ IsLeaf(fx)
    /\ toggles < MaxToggles
    /\ fx' = ShaderReverse(fx)
    /\ toggles' = toggles + 1
    /\ op' = "reverse"
    /\ UNCHANGED <<delivered, calls, ret, lastDelta, lastArea, prevDone, somes, blit, sel, scr, call>>

\* the host calls reset() on a leaf shader; a panic ends the run
Reset ==
    /\ op # "panic"
    /\ IsLeaf(fx)
    /\ toggles < MaxToggles
    /\ IF ShaderResetPanics(fx)
       THEN fx' = fx /\ op' = "panic"
       ELSE fx' = ShaderReset(fx) /\ op' = "reset"
    /\ toggles' = toggles + 1
    /\ delivered' = 0
    /\ somes' = 0
    /\ UNCHANGED <<calls, ret, lastDelta, lastArea, prevDone, blit, sel, scr, call>>

ProcessStep == \E duration \in Deltas, area \in Areas : Process(duration, area)

Next == ProcessStep \/ Reverse \/ Reset

Spec == Init /\ [][Next]_vars

\* the host calls reset() on a TemporaryEffect, which keeps the default reset
ResetTemporary ==
    /\ fx.kind = "temporary"
    /\ toggles < MaxToggles
    /\ fx' = TemporaryReset(fx)
    /\ toggles' = toggles + 1
    /\ delivered' = 0
    /\ somes' = 0
    /\ op' = "reset"
    /\ UNCHANGED <<calls, ret, lastDelta, lastArea, prevDone, blit, sel, scr, call>>

NextReset == Next \/ ResetTemporary

\* runs in which the host also resets TemporaryEffects
SpecReset == Init /\ [][NextReset]_vars

----------------------------------------------------------------------------
(* Properties of the effect machinery *)

Total(e) == e.timer.total

Elapsed(e) == e.timer.elapsed

\* the call that produced this state took fx from running to done
Completing == op = "process" /\ ~prevDone /\ EffectDone(fx)

\* C1: sequence of two effects with durations d1, d2: however the time is split
\* into calls, the first child holds min(delivered, d1) and the second the
\* rest up to d2 (the surplus of the call completing the first child reaches
\* the second in that call), both children and the sequence are done once
\* d1 + d2 is delivered, and the completing call returns delivered - (d1 + d2).
C1_SequenceDropsNoTime ==
    fx.kind = "sequence" =>
        LET a == fx.effects[1]
            b == fx.effects[2]
            T == Total(a) + Total(b)
        IN /\ Elapsed(a) = Min(delivered, Total(a))
           /\ Elapsed(b) = Min(Max(delivered - Total(a), 0), Total(b))
           /\ delivered >= T => EffectDone(a) /\ EffectDone(b) /\ EffectDone(fx)
           /\ delivered < T => EffectRunning(fx)
           /\ Completing => ret = Some(delivered - T)

\* one call carries the time past both children: d1 + d2 + 1 ticks at once
C1_Witness ==
    /\ fx.kind = "sequence"
    /\ Completing
    /\ calls = 1
    /\ ret = Some(1)
    /\ EffectDone(fx.effects[1]) /\ EffectDone(fx.effects[2])

\* several smaller calls: the second crosses the first child's end and feeds
\* its surplus to the second child, the third completes the sequence
C1_WitnessSplit ==
    /\ fx.kind = "sequence"
    /\ Completing
    /\ calls = 3
    /\ fx.effects[1].procs = 2
    /\ fx.effects[2].procs = 2
    /\ ret.val > 0

ParallelState ==
    fx.kind = "parallel" =>
        LET a == fx.effects[1]
            b == fx.effects[2]
        IN /\ EffectDone(fx) <=> (EffectDone(a) /\ EffectDone(b))
           /\ EffectDone(fx) <=> delivered >= Max(Total(a), Total(b))
           /\ Elapsed(a) = Min(delivered, Total(a))
           /\ Elapsed(b) = Min(delivered, Total(b))

ParallelStep ==
    (fx.kind = "parallel" /\ op' = "process" /\ calls' = calls + 1) =>
        \A i \in 1..Len(fx.effects) :
            IF EffectDone(fx.effects[i])
            THEN fx'.effects[i].timer = fx.effects[i].timer
            ELSE /\ fx'.effects[i].fed = fx.effects[i].fed + lastDelta'
                 /\ fx'.effects[i].procs = fx.effects[i].procs + 1

\* C2: a parallel of two effects is done exactly when both children are done,
\* that is exactly when the delivered time has reached the longer duration;
\* each call hands its delta to every child that is not yet done and leaves the
\* timer of a child that has completed where it is.
C2_ParallelDoneWhenAllDone == []ParallelState /\ [][ParallelStep]_vars

\* d1 < d2, the shorter child complete since an earlier call, the parallel
\* still running after a further call that delivered time
C2_Witness ==
    /\ fx.kind = "parallel"
    /\ Total(fx.effects[1]) < Total(fx.effects[2])
    /\ op = "process"
    /\ lastDelta > 0
    /\ delivered - lastDelta >= Total(fx.effects[1])
    /\ EffectDone(fx.effects[1])
    /\ EffectRunning(fx)

RECURSIVE Timers(_)
\* every timer of an effect tree
Timers(e) ==
    CASE e.kind = "dissolve" -> {e.timer}
      [] e.kind = "timerless" -> {}
      [] e.kind = "temporary" -> {e.duration} \cup Timers(e.effect)
      [] e.kind = "never_complete" -> Timers(e.effect)
      [] OTHER -> UNION {Timers(e.effects[i]) : i \in 1..Len(e.effects)}

\* C4: under process, reversed and reset every timer keeps 0 <= elapsed <=
\* total; a timer holds min(delivered, total), the excess is never stored, and
\* the timer is done exactly when elapsed equals total.
C4_ElapsedWithinTotal ==
    /\ \A t \in Timers(fx) : 0 <= t.elapsed /\ t.elapsed <= t.total
    /\ \A t \in Timers(fx) : TimerDone(t) <=> t.elapsed = t.total
    /\ fx.kind = "dissolve" =>
          /\ Elapsed(fx) = Min(delivered, Total(fx))
          /\ EffectDone(fx) <=> delivered >= Total(fx)

\* a reversed and reset timer that was then driven past its total
C4_Witness ==
    /\ fx.kind = "dissolve"
    /\ fx.timer.reversed
    /\ toggles = 2
    /\ op = "process"
    /\ delivered > Total(fx)
    /\ Total(fx) > 0
    /\ calls > 2

\* C5: a TemporaryEffect is done exactly when the time delivered to it has
\* reached its duration or its wrapped effect is done (for a wrapped leaf:
\* when the delivered time has reached the leaf's own duration), and running
\* otherwise.
C5_TemporaryDoneEitherWay ==
    fx.kind = "temporary" =>
        /\ EffectDone(fx) <=> (delivered >= fx.duration.total \/ EffectDone(fx.effect))
        /\ fx.effect.kind = "dissolve" =>
              (EffectDone(fx) <=> delivered >= Min(fx.duration.total, Total(fx.effect)))
        /\ EffectRunning(fx) <=> ~EffectDone(fx)

\* the wrapped effect finished on its own while the outer timer still runs
C5_Witness ==
    /\ fx.kind = "temporary"
    /\ op = "process"
    /\ fx.effect.kind = "dissolve"
    /\ EffectDone(fx.effect)
    /\ ~TimerDone(fx.duration)
    /\ EffectDone(fx)

\* C6: a process call that takes a TemporaryEffect from running to done returns
\* Some(overflow); a call that leaves it running returns None.
C6_TemporaryReportsCompletion ==
    fx.kind = "temporary" =>
        /\ Completing => ret.some
        /\ (op = "process" /\ EffectRunning(fx)) => ~ret.some

RECURSIVE LeafOf(_)
\* the leaf shader a chain of wrappers ends in
LeafOf(e) == IF IsLeaf(e) THEN e ELSE LeafOf(e.effect)

\* C7: the time forwarded to the effect wrapped by with_duration(d, e) never
\* exceeds d, and the wrapped effect is never advanced past d.
C7_TemporaryCapsForwardedTime ==
    fx.kind = "temporary" =>
        /\ LeafOf(fx).fed <= fx.duration.total
        /\ Elapsed(LeafOf(fx)) <= fx.duration.total

\* C8: timed_never_complete(d, e) is done exactly when the delivered time has
\* reached d, whatever e's duration; e is processed and executed on every
\* call; never_complete(e) alone is never done.
C8_TimedNeverComplete ==
    /\ (fx.kind = "temporary" /\ fx.effect.kind = "never_complete") =>
          /\ EffectDone(fx) <=> delivered >= fx.duration.total
          /\ LeafOf(fx).procs = calls
          /\ LeafOf(fx).execs = calls
          /\ LeafOf(fx).fed = delivered
    /\ fx.kind = "never_complete" =>
          /\ EffectRunning(fx)
          /\ LeafOf(fx).procs = calls
          /\ LeafOf(fx).execs = calls

\* the wrapped effect's timer completed two calls ago, the wrapper is still
\* running and still processes it
C8_Witness ==
    /\ fx.kind = "temporary"
    /\ fx.effect.kind = "never_complete"
    /\ op = "process"
    /\ EffectDone(LeafOf(fx))
    /\ delivered >= Total(LeafOf(fx)) + 2
    /\ LeafOf(fx).procs = 3
    /\ EffectRunning(fx)

\* C9: after a default process call on a leaf shader the timer is advanced,
\* execute has run once per process call, the last execute got the alpha of the
\* advanced timer (1 without a timer) and the call's area, and the call
\* returned the timer's overflow (None without a timer).
C9_DefaultProcessOrder ==
    (IsLeaf(fx) /\ op = "process") =>
        /\ fx.execs = calls
        /\ fx.procs = calls
        /\ fx.execArea = lastArea
        /\ fx.hasTimer =>
              /\ Elapsed(fx) = Min(delivered, Total(fx))
              /\ fx.execAlpha = TimerAlpha(fx.timer)
              /\ ret = IF delivered - lastDelta < Total(fx) /\ delivered >= Total(fx)
                       THEN Some(delivered - Total(fx)) ELSE NoneD
        /\ ~fx.hasTimer => fx.execAlpha = AlphaOne /\ ret = NoneD

\* a call that moved the timer: execute saw the alpha after the advance, which
\* differs from the alpha before it
C9_Witness ==
    /\ fx.kind = "dissolve"
    /\ op = "process"
    /\ calls = 2
    /\ lastDelta = 1
    /\ fx.execAlpha = [num |-> 2, den |-> 3]

\* execute still runs on a call made after the timer is done
C9_WitnessAfterDone ==
    /\ fx.kind = "dissolve"
    /\ op = "process"
    /\ prevDone
    /\ fx.execs = calls
    /\ calls >= 2

----------------------------------------------------------------------------
(* Buffer blit.  Coordinates are u16, offsets i32.  A buffer is its area   *)
(* and the cells at the positions of that area; a position is <<x, y>>.    *)

U16 == 65536        \* number of u16 values

MaxShift == 3       \* largest magnitude of the small blit offsets

SatSub(a, b) == IF a >= b THEN a - b ELSE 0

SatAdd(a, b) == Min(a + b, U16 - 1)

\* u16 subtraction and addition: wrapped value, and whether it overflowed
Sub16(a, b) == [val |-> (a - b) % U16, overflow |-> a < b]

Add16(a, b) == [val |-> (a + b) % U16, overflow |-> a + b >= U16]

\* i32 as u16
AsU16(i) == i % U16

Rect(x, y, width, height) == [x |-> x, y |-> y, width |-> width, height |-> height]

\* Rect::new keeps the rectangle inside the u16 coordinate space
RectNew(x, y, width, height) ==
    Rect(x, y, Min(width, U16 - 1 - x), Min(height, U16 - 1 - y))

Right(r) == SatAdd(r.x, r.width)

Bottom(r) == SatAdd(r.y, r.height)

RectArea(r) == r.width * r.height

Intersection(a, b) ==
    LET x1 == Max(a.x, b.x)
        y1 == Max(a.y, b.y)
        x2 == Min(Right(a), Right(b))
        y2 == Min(Bottom(a), Bottom(b))
    IN Rect(x1, y1, SatSub(x2, x1), SatSub(y2, y1))

Contains(r, p) ==
    /\ p[1] >= r.x /\ p[1] < Right(r)
    /\ p[2] >= r.y /\ p[2] < Bottom(r)

PositionsOf(r) == {p \in (r.x..(Right(r) - 1)) \X (r.y..(Bottom(r) - 1)) : TRUE}

SrcCell(src, p) == [sym |-> <<"s", p[1], p[2]>>, skip |-> p \in src.skip]

DstCell(p) == [sym |-> <<"d", p[1], p[2]>>, skip |-> FALSE]

\* ClipRegion::new, with the u16 overflows met on the way
ClipRegionNew(src_region, dst_bounds, dst_offset) ==
    LET x_offset == AsU16(-Min(dst_offset.x, 0))
        y_offset == AsU16(-Min(dst_offset.y, 0))
        dst == RectNew(AsU16(Max(dst_offset.x, 0)), AsU16(Max(dst_offset.y, 0)),
                       src_region.width, src_region.height)
        w0 == Sub16(dst.width, x_offset)
        h0 == Sub16(dst.height, y_offset)
        width == Min(Min(w0.val, SatSub(dst_bounds.width, dst.x)), src_region.width)
        height == Min(Min(h0.val, SatSub(dst_bounds.height, dst.y)), src_region.height)
        sx == Add16(src_region.x, x_offset)
        sy == Add16(src_region.y, y_offset)
    IN [src |-> RectNew(sx.val, sy.val, width, height),
        dst |-> RectNew(dst.x, dst.y, width, height),
        overflow |-> w0.overflow \/ h0.overflow \/ sx.overflow \/ sy.overflow]

ClipIsValid(clip) == RectArea(clip.src) > 0

\* the k-th of Rect::new(0, 0, width, height).positions(), row by row
NormalizedPosition(clip, k) == <<k % clip.src.width, k \div clip.src.width>>

ClipSrcPos(clip, pos) == <<clip.src.x + pos[1], clip.src.y + pos[2]>>

ClipDstPos(clip, pos) == <<clip.dst.x + pos[1], clip.dst.y + pos[2]>>

\* whether the copy loop steps over a source cell
SkipsCell_never(src_cell) == FALSE

SkipsCell(src_cell) == src_cell.skip

RECURSIVE BlitLoop(_, _, _, _, _)
\* the copy loop from its k-th position on; indexing a buffer outside its area
\* panics and leaves the cells written so far
BlitLoop(b, clip, k, st, n) ==
    IF k >= n
    THEN st
    ELSE LET pos == NormalizedPosition(clip, k)
             sp == ClipSrcPos(clip, pos)
             dp == ClipDstPos(clip, pos)
         IN IF ~Contains(b.src.area, sp)
            THEN [st EXCEPT !.panicked = TRUE, !.reads = st.reads \cup {sp}]
            ELSE IF SkipsCell(SrcCell(b.src, sp))
                 THEN BlitLoop(b, clip, k + 1, [st EXCEPT !.reads = st.reads \cup {sp}], n)
                 ELSE IF ~Contains(b.dstArea, dp)
                      THEN [st EXCEPT !.panicked = TRUE, !.reads = st.reads \cup {sp},
                                      !.writes = st.writes \cup {dp}]
                      ELSE BlitLoop(b, clip, k + 1,
                                    [st EXCEPT !.reads = st.reads \cup {sp},
                                               !.writes = st.writes \cup {dp},
                                               !.cells[dp] = SrcCell(b.src, sp)],
                                    n)

\* blit_buffer_region(src, src_region, dst, offset); an arithmetic overflow
\* panics in a build with overflow checks and wraps in one without
BlitBufferRegion(b) ==
    LET src_region == Intersection(b.region, b.src.area)
        clip == ClipRegionNew(src_region, b.dstArea, b.offset)
        st == [cells |-> b.cells, panicked |-> FALSE, reads |-> {}, writes |-> {}]
    IN IF clip.overflow /\ b.build = "debug"
       THEN [st EXCEPT !.panicked = TRUE]
       ELSE IF ~ClipIsValid(clip)
            THEN st
            ELSE BlitLoop(b, clip, 0, st, RectArea(clip.src))

\* blit_buffer(src, dst, offset)
BlitBuffer(b) == BlitBufferRegion([b EXCEPT !.region = b.src.area])

SrcAreas == {Rect(0, 0, 2, 2), Rect(1, 1, 2, 2)}

DstAreas == {Rect(0, 0, 2, 2), Rect(0, 0, 3, 1), Rect(1, 0, 2, 2)}

Regions ==
    {Rect(x, y, w, h) : x \in 0..1, y \in 0..1, w \in 1..3, h \in 1..2}
    \cup {Rect(0, 0, 0, 0)}

OffsetsX == (-MaxShift..MaxShift) \cup {-U16, U16 + 1}

OffsetsY == -1..1

Builds == {"debug", "release"}

BlitInput(sa, sk, r, da, ox, oy, bd) ==
    [phase |-> "ready", whole |-> FALSE,
     src |-> [area |-> sa, skip |-> sk], region |-> r, dstArea |-> da,
     offset |-> [x |-> ox, y |-> oy], build |-> bd,
     cells |-> [p \in PositionsOf(da) |-> DstCell(p)],
     panicked |-> FALSE, reads |-> {}, writes |-> {}]

InitBlit ==
    /\ \E sa \in SrcAreas, r \in Regions, da \in DstAreas,
          ox \in OffsetsX, oy \in OffsetsY, bd \in Builds :
            \E sk \in SUBSET PositionsOf(sa) :
                blit = BlitInput(sa, sk, r, da, ox, oy, bd)
    /\ sel = NoSelection
    /\ scr = NoScreen
    /\ call = NoCall
    /\ fx = Timerless
    /\ delivered = 0
    /\ calls = 0
    /\ ret = NoneD
    /\ lastDelta = 0
    /\ lastArea = NoArea
    /\ prevDone = FALSE
    /\ somes = 0
    /\ op = "new"
    /\ toggles = 0

\* src.render_buffer_region(region, offset, dst)
BlitRegion ==
    /\ blit.phase = "ready"
    /\ LET st == BlitBufferRegion(blit)
       IN blit' = [blit EXCEPT !.phase = "done", !.cells = st.cells,
                               !.panicked = st.panicked, !.reads = st.reads,
                               !.writes = st.writes]
    /\ UNCHANGED <<fxVars, sel, scr, call>>

\* src.render_buffer(offset, dst)
BlitWhole ==
    /\ blit.phase = "ready"
    /\ LET st == BlitBuffer(blit)
       IN blit' = [blit EXCEPT !.phase = "done", !.whole = TRUE, !.region = blit.src.area,
                               !.cells = st.cells,
                               !.panicked = st.panicked, !.reads = st.reads,
                               !.writes = st.writes]
    /\ UNCHANGED <<fxVars, sel, scr, call>>

NextBlit == BlitRegion \/ BlitWhole

SpecBlit == InitBlit /\ [][NextBlit]_vars

----------------------------------------------------------------------------
(* Properties of the blit *)

\* the source region after clipping to the source buffer
ClippedRegion(b) == Intersection(b.region, b.src.area)

\* destination position q lies under the clipped source region placed at offset
Paired(b, q) ==
    LET r == ClippedRegion(b)
    IN /\ 0 <= q[1] - b.offset.x /\ q[1] - b.offset.x < r.width
       /\ 0 <= q[2] - b.offset.y /\ q[2] - b.offset.y < r.height

\* the source position that lands on destination position q
SourceOf(b, q) ==
    LET r == ClippedRegion(b)
    IN <<r.x + q[1] - b.offset.x, r.y + q[2] - b.offset.y>>

\* C10: after a blit, whole or of a region, every destination cell whose
\* corresponding source cell is marked skip holds the value it held before, and
\* every destination cell that changed holds a source cell that is not skip.
C10_SkipCellsNeverCopied ==
    blit.phase = "done" =>
        \A q \in DOMAIN blit.cells :
            /\ (Paired(blit, q) /\ SrcCell(blit.src, SourceOf(blit, q)).skip) =>
                   blit.cells[q] = DstCell(q)
            /\ blit.cells[q] # DstCell(q) =>
                   \E sp \in PositionsOf(blit.src.area) :
                       /\ sp \notin blit.src.skip
                       /\ blit.cells[q] = SrcCell(blit.src, sp)

\* a blit at a non-zero offset that copied one cell and stepped over a skip cell
\* paired with another destination cell
C10_Witness ==
    /\ blit.phase = "done"
    /\ ~blit.panicked
    /\ blit.offset.x = 1
    /\ \E q \in DOMAIN blit.cells :
           Paired(blit, q) /\ SrcCell(blit.src, SourceOf(blit, q)).skip
    /\ \E q \in DOMAIN blit.cells : blit.cells[q] # DstCell(q)

\* the source region placed at the offset misses the destination, or the region
\* clipped to the source and to the destination has no cell
EntirelyOutside(b) == \A q \in PositionsOf(b.dstArea) : ~Paired(b, q)

\* C11: a blit whose offset, of any sign and magnitude, places the source
\* region entirely outside the destination, or whose clipped region has zero
\* area, leaves every destination cell as it was and does not fail.
C11_OutsideIsNoOp ==
    (blit.phase = "done" /\ EntirelyOutside(blit)) =>
        /\ ~blit.panicked
        /\ \A q \in DOMAIN blit.cells : blit.cells[q] = DstCell(q)

\* the reference copy: the cell destination position q holds afterwards
ReferenceCell(b, q) ==
    IF Paired(b, q) /\ ~SrcCell(b.src, SourceOf(b, q)).skip
    THEN SrcCell(b.src, SourceOf(b, q))
    ELSE DstCell(q)

\* C12: for a destination whose area starts at (0,0), a blit of region R at
\* offset (ox, oy) equals the reference copy: every destination position
\* paired with a cell of R clipped to the source holds that source cell unless
\* it is marked skip, and every other destination cell is unchanged; blit_buffer
\* is the same with R the whole source area.
C12_BlitIsReferenceCopy ==
    (blit.phase = "done" /\ blit.dstArea.x = 0 /\ blit.dstArea.y = 0) =>
        /\ ~blit.panicked
        /\ \A q \in DOMAIN blit.cells : blit.cells[q] = ReferenceCell(blit, q)

\* C13: a blit never reads or writes out of bounds: whatever the source, the
\* region, the offset and the origin and size of the destination's area, every
\* position it reads lies inside the source buffer's area and every position
\* it writes lies inside the destination buffer's area.
C13_BlitStaysInBounds ==
    blit.phase = "done" =>
        /\ \A sp \in blit.reads : Contains(blit.src.area, sp)
        /\ \A dp \in blit.writes : Contains(blit.dstArea, dp)

----------------------------------------------------------------------------
(* Cell filters.  A CellFilter is a record of its variant (kind) and the   *)
(* variant's fields; a cell is its symbol and its two colors.              *)

MaxMargin == 1      \* largest margin of the Inner / Outer filters

Margin(horizontal, vertical) == [horizontal |-> horizontal, vertical |-> vertical]

\* Layout::horizontal([Length(length), Min(0)]) or the vertical one
LayoutOf(direction, length) == [direction |-> direction, length |-> length]

NoFields ==
    [color |-> "", margin |-> Margin(0, 0), filters |-> <<>>,
     layout |-> LayoutOf("horizontal", 0), idx |-> 0, positions |-> {}, cells |-> {}]

CellFilter(kind) == [kind |-> kind] @@ NoFields

All == CellFilter("All")

FgColor(color) == [CellFilter("FgColor") EXCEPT !.color = color]

BgColor(color) == [CellFilter("BgColor") EXCEPT !.color = color]

Inner(margin) == [CellFilter("Inner") EXCEPT !.margin = margin]

Outer(margin) == [CellFilter("Outer") EXCEPT !.margin = margin]

Text == CellFilter("Text")

AllOf(filters) == [CellFilter("AllOf") EXCEPT !.filters = filters]

AnyOf(filters) == [CellFilter("AnyOf") EXCEPT !.filters = filters]

NoneOf(filters) == [CellFilter("NoneOf") EXCEPT !.filters = filters]

Not(filter) == [CellFilter("Not") EXCEPT !.filters = <<filter>>]

Layout(layout, idx) == [CellFilter("Layout") EXCEPT !.layout = layout, !.idx = idx]

\* a position predicate is the set of positions it holds of
PositionFn(f) == [CellFilter("PositionFn") EXCEPT !.positions = f]

\* a cell predicate is the set of cells it holds of
EvalCell(f) == [CellFilter("EvalCell") EXCEPT !.cells = f]

\* u16::saturating_mul(2)
SatDouble(a) == Min(2 * a, U16 - 1)

ZeroRect == Rect(0, 0, 0, 0)

\* Rect::inner
RectInner(r, margin) ==
    LET doubled_margin_horizontal == SatDouble(margin.horizontal)
        doubled_margin_vertical == SatDouble(margin.vertical)
    IN IF r.width < doubled_margin_horizontal \/ r.height < doubled_margin_vertical
       THEN ZeroRect
       ELSE Rect(SatAdd(r.x, margin.horizontal), SatAdd(r.y, margin.vertical),
                 SatSub(r.width, doubled_margin_horizontal),
                 SatSub(r.height, doubled_margin_vertical))

\* Layout::split for the constraints [Length(length), Min(0)]
LayoutSplit(layout, area) ==
    IF layout.direction = "horizontal"
    THEN LET w == Min(layout.length, area.width)
         IN <<Rect(area.x, area.y, w, area.height),
              Rect(area.x + w, area.y, area.width - w, area.height)>>
    ELSE LET h == Min(layout.length, area.height)
         IN <<Rect(area.x, area.y, area.width, h),
              Rect(area.x, area.y + h, area.width, area.height - h)>>

\* resolve_area that does not look through Not
ResolveArea_flat(area, mode) ==
    CASE mode.kind \in {"Inner", "Outer"} -> RectInner(area, mode.margin)
      [] mode.kind = "Layout" -> LayoutSplit(mode.layout, area)[mode.idx + 1]
      [] OTHER -> area

RECURSIVE ResolveArea(_, _)
\* CellPredicate::resolve_area
ResolveArea(area, mode) ==
    CASE mode.kind \in {"Inner", "Outer"} -> RectInner(area, mode.margin)
      [] mode.kind = "Not" -> ResolveArea(area, mode.filters[1])
      [] mode.kind = "Layout" -> LayoutSplit(mode.layout, area)[mode.idx + 1]
      [] OTHER -> area

RECURSIVE ResolvePanics(_, _)
\* resolve_area indexes the slots of the split with idx: an index that is not
\* smaller than their number panics
ResolvePanics(area, mode) ==
    CASE mode.kind = "Not" -> ResolvePanics(area, mode.filters[1])
      [] mode.kind = "Layout" -> mode.idx >= Len(LayoutSplit(mode.layout, area))
      [] OTHER -> FALSE

\* CellPredicate::new
CellPredicateNew(area, strategy) ==
    [inner_area |-> ResolveArea(area, strategy), strategy |-> strategy]

\* CellFilter::selector
Selector(filter, area) == CellPredicateNew(area, filter)

\* Iterator::all, Iterator::any and all(!..) over the children's position tests
AllOfPositions_any(bs) == \E i \in DOMAIN bs : bs[i]

AllOfPositions(bs) == \A i \in DOMAIN bs : bs[i]

AnyOfPositions_all(bs) == \A i \in DOMAIN bs : bs[i]

AnyOfPositions(bs) == \E i \in DOMAIN bs : bs[i]

NoneOfPositions_last(bs) == bs = <<>> \/ ~bs[Len(bs)]

NoneOfPositions(bs) == \A i \in DOMAIN bs : ~bs[i]

\* Iterator::all over the children's cell tests
AllOfCells(bs) == \A i \in DOMAIN bs : bs[i]

RECURSIVE ValidPosition(_, _, _)
\* CellPredicate::valid_position
ValidPosition(self, pos, mode) ==
    LET children == [i \in DOMAIN mode.filters |->
                        ValidPosition(Selector(mode.filters[i], self.inner_area),
                                      pos, mode.filters[i])]
    IN CASE mode.kind = "Outer" -> ~Contains(self.inner_area, pos)
         [] mode.kind = "AllOf" -> AllOfPositions(children)
         [] mode.kind = "AnyOf" -> AnyOfPositions(children)
         [] mode.kind = "NoneOf" -> NoneOfPositions(children)
         [] mode.kind = "Not" -> ValidPosition(self, pos, mode.filters[1])
         [] mode.kind = "PositionFn" -> pos \in mode.positions
         [] OTHER -> Contains(self.inner_area, pos)

\* A symbol is the sequence of its characters, a character is its name.
\* char::is_alphabetic, char::is_numeric over the characters of the model
IsAlphabetic(ch) == ch \in {"a", "b", "e_acute"}

IsNumeric(ch) == ch \in {"7"}

\* bytes of a character in UTF-8
Utf8Len(ch) == IF ch \in {"e_acute"} THEN 2 ELSE 1

RECURSIVE StrLen(_)
\* str::len, the length of a symbol in bytes
StrLen(symbol) ==
    IF symbol = <<>> THEN 0 ELSE Utf8Len(Head(symbol)) + StrLen(Tail(symbol))

\* cell.symbol().len() == 1
HasOneChar(symbol) == StrLen(symbol) = 1

\* the symbol test of CellFilter::Text
IsTextSymbol(symbol) ==
    IF HasOneChar(symbol)
    THEN LET ch == symbol[1]
         IN IsAlphabetic(ch) \/ IsNumeric(ch) \/ ch = " "
            \/ ch \in {"?", "!", ".", ",", ":", ";"}
    ELSE FALSE

RECURSIVE IsValidCell(_, _, _)
\* CellPredicate::is_valid_cell
IsValidCell(self, cell, mode) ==
    CASE mode.kind = "Text" -> IsTextSymbol(cell.symbol)
      [] mode.kind = "AllOf" ->
            AllOfCells([i \in DOMAIN mode.filters |->
                           IsValidCell(Selector(mode.filters[i], self.inner_area),
                                       cell, mode.filters[i])])
      [] mode.kind = "FgColor" -> cell.fg = mode.color
      [] mode.kind = "BgColor" -> cell.bg = mode.color
      [] mode.kind = "Not" -> ~IsValidCell(self, cell, mode.filters[1])
      [] mode.kind = "EvalCell" -> cell \in mode.cells
      [] OTHER -> TRUE

\* is_valid that leaves out the content test
\* is_valid without the position test
IsValid_cell(self, pos, cell) == IsValidCell(self, cell, self.strategy)

IsValid_position(self, pos, cell) == ValidPosition(self, pos, self.strategy)

\* CellPredicate::is_valid
IsValid(self, pos, cell) ==
    ValidPosition(self, pos, self.strategy) /\ IsValidCell(self, cell, self.strategy)

Colors == {"Red", "Green"}

Symbols == {<<"a">>, <<"#">>, <<"a", "b">>, <<"e_acute">>, <<"7">>, <<" ">>, <<"?">>, <<>>}

Cell(symbol, fg, bg) == [symbol |-> symbol, fg |-> fg, bg |-> bg]

SelCells ==
    {Cell(symbol, "Red", "Red") : symbol \in Symbols}
    \cup {Cell(symbol, fg, bg) : symbol \in {<<"a">>, <<"#">>}, fg \in Colors, bg \in Colors}

SelAreas == {Rect(0, 0, 3, 3), Rect(1, 0, 3, 2), Rect(0, 0, 1, 1)}

SelPositions == (0..3) \X (0..2)

Margins == {Margin(m, m) : m \in 1..MaxMargin}

BaseFilters ==
    {All, FgColor("Red"), BgColor("Green"), Text,
     Layout(LayoutOf("horizontal", 1), 0), Layout(LayoutOf("horizontal", 1), 1),
     PositionFn({<<0, 0>>, <<1, 1>>}),
     EvalCell({c \in SelCells : c.symbol = <<"#">>})}
    \cup {Inner(m) : m \in Margins} \cup {Outer(m) : m \in Margins}

\* the filters composite filters are built from
Operands ==
    BaseFilters
    \cup {Not(FgColor("Red")), AllOf(<<Inner(Margin(1, 1)), Text>>),
          AnyOf(<<FgColor("Red"), BgColor("Green")>>), NoneOf(<<Inner(Margin(1, 1))>>)}

Lists == {<<>>} \cup {<<a>> : a \in Operands} \cup {<<a, b>> : a \in Operands, b \in Operands}

SelFilters ==
    Operands
    \cup {Not(a) : a \in Operands} \cup {Not(Not(a)) : a \in Operands}
    \cup {AllOf(l) : l \in Lists} \cup {AnyOf(l) : l \in Lists} \cup {NoneOf(l) : l \in Lists}

\* layout filters over every slot index up to the number of slots
SlotFilters ==
    {Layout(LayoutOf(d, 1), idx) : d \in {"horizontal", "vertical"}, idx \in 0..2}
    \cup {Not(Layout(LayoutOf("horizontal", 1), 2))}

InitFilter ==
    /\ \E area \in SelAreas, pos \in SelPositions, cell \in SelCells :
           sel = [phase |-> "ready", area |-> area, pos |-> pos, cell |-> cell]
    /\ blit = NoBlit
    /\ scr = NoScreen
    /\ call = NoCall
    /\ fx = Timerless
    /\ delivered = 0
    /\ calls = 0
    /\ ret = NoneD
    /\ lastDelta = 0
    /\ lastArea = NoArea
    /\ prevDone = FALSE
    /\ somes = 0
    /\ op = "new"
    /\ toggles = 0

\* filter.selector(area); a panic ends the run without a predicate
Select ==
    /\ sel.phase = "ready"
    /\ \E filter \in SelFilters \cup SlotFilters :
           IF ResolvePanics(sel.area, filter)
           THEN sel' = [phase |-> "panic", area |-> sel.area, pos |-> sel.pos,
                        cell |-> sel.cell, filter |-> filter]
           ELSE sel' = [phase |-> "selected", area |-> sel.area, pos |-> sel.pos,
                        cell |-> sel.cell, filter |-> filter,
                        predicate |-> Selector(filter, sel.area)]
    /\ UNCHANGED <<fxVars, blit, scr, call>>

\* predicate.is_valid(pos, cell)
TestCell ==
    /\ sel.phase = "selected"
    /\ sel' = [phase |-> "done", area |-> sel.area, pos |-> sel.pos,
               cell |-> sel.cell, filter |-> sel.filter,
               predicate |-> sel.predicate,
               result |-> IsValid(sel.predicate, sel.pos, sel.cell)]
    /\ UNCHANGED <<fxVars, blit, scr, call>>

NextFilter == Select \/ TestCell

SpecFilter == InitFilter /\ [][NextFilter]_vars

----------------------------------------------------------------------------
(* Properties of the cell filters *)

\* whether filter accepts the (position, cell) pair over the area
Accepts(filter, area, pos, cell) == IsValid(Selector(filter, area), pos, cell)

SelDone == sel.phase = "done"

\* C14: Not(A) accepts a (position, cell) pair, the position inside the area,
\* exactly when A rejects it, for content filters, margin filters, All and
\* composites alike.
C14_NotNegates ==
    (SelDone /\ sel.filter.kind = "Not" /\ Contains(sel.area, sel.pos)) =>
        sel.result = ~Accepts(sel.filter.filters[1], sel.area, sel.pos, sel.cell)

\* whether the i-th listed filter of a composite accepts the pair under test
ListedAccepts(i) == Accepts(sel.filter.filters[i], sel.area, sel.pos, sel.cell)

\* C15: NoneOf(filters) accepts every (position, cell) pair, the position
\* inside the area, that none of the listed filters accepts.
C15_NoneOfSelectsUnmatched ==
    (/\ SelDone /\ sel.filter.kind = "NoneOf" /\ Contains(sel.area, sel.pos)
     /\ \A i \in DOMAIN sel.filter.filters : ~ListedAccepts(i)) =>
        sel.result

\* C16: AnyOf(filters) accepts a (position, cell) pair only if at least one of
\* the listed filters accepts it, content filters included.
C16_AnyOfOnlyMatched ==
    (SelDone /\ sel.filter.kind = "AnyOf" /\ sel.result) =>
        \E i \in DOMAIN sel.filter.filters : ListedAccepts(i)

\* C17: AllOf(filters) accepts a (position, cell) pair over an area exactly
\* when every listed filter, resolved against that same area, accepts it.
C17_AllOfIsConjunction ==
    (SelDone /\ sel.filter.kind = "AllOf") =>
        sel.result = \A i \in DOMAIN sel.filter.filters : ListedAccepts(i)

\* an accepted pair under two sibling margin filters, and a pair a content
\* sibling rejects
C17_Witness ==
    /\ SelDone
    /\ sel.filter = AllOf(<<Inner(Margin(1, 1)), Inner(Margin(1, 1))>>)
    /\ sel.area = Rect(0, 0, 3, 3)
    /\ sel.pos = <<1, 1>>
    /\ sel.result

C17_WitnessRejected ==
    /\ SelDone
    /\ sel.filter = AllOf(<<Inner(Margin(1, 1)), FgColor("Red")>>)
    /\ sel.pos = <<1, 1>>
    /\ ListedAccepts(1)
    /\ ~ListedAccepts(2)
    /\ ~sel.result

\* C18: Not(Not(A)) behaves as A: for every area, position and cell its
\* selector resolves the effective area A's selector resolves, and is_valid
\* gives the result it gives for A.
C18_DoubleNotIsIdentity ==
    (SelDone /\ sel.filter.kind = "Not" /\ sel.filter.filters[1].kind = "Not") =>
        LET A == sel.filter.filters[1].filters[1]
        IN /\ sel.predicate.inner_area = Selector(A, sel.area).inner_area
           /\ sel.result = Accepts(A, sel.area, sel.pos, sel.cell)

\* a doubly negated margin filter accepting the one cell inside the margin
C18_Witness ==
    /\ SelDone
    /\ sel.filter = Not(Not(Inner(Margin(1, 1))))
    /\ sel.area = Rect(0, 0, 3, 3)
    /\ sel.predicate.inner_area = Rect(1, 1, 1, 1)
    /\ sel.pos = <<1, 1>>
    /\ sel.result

\* a doubly negated content filter rejecting a cell of the other color
C18_WitnessContent ==
    /\ SelDone
    /\ sel.filter = Not(Not(FgColor("Red")))
    /\ Contains(sel.area, sel.pos)
    /\ sel.cell.fg = "Green"
    /\ ~sel.result

\* C19: if A accepts a (position, cell) pair then NoneOf([A, B]) rejects it,
\* whatever B is.
C19_NoneOfRejectsAccepted ==
    (/\ SelDone /\ sel.filter.kind = "NoneOf" /\ Len(sel.filter.filters) = 2
     /\ ListedAccepts(1)) =>
        ~sel.result

\* NoneOf([A, B]) rejecting a pair that A accepts and B rejects
C19_Witness ==
    /\ SelDone
    /\ sel.filter.kind = "NoneOf"
    /\ Len(sel.filter.filters) = 2
    /\ ListedAccepts(1)
    /\ ~ListedAccepts(2)
    /\ ~ValidPosition(Selector(sel.filter.filters[2], sel.area), sel.pos,
                      sel.filter.filters[2])
    /\ ~sel.result

\* C20: if A accepts a (position, cell) pair or B accepts it, then
\* AnyOf([A, B]) accepts it.
C20_AnyOfAcceptsEither ==
    (/\ SelDone /\ sel.filter.kind = "AnyOf" /\ Len(sel.filter.filters) = 2
     /\ (ListedAccepts(1) \/ ListedAccepts(2))) =>
        sel.result

\* AnyOf([A, B]) accepting a pair that only B accepts, A rejecting it by position
C20_Witness ==
    /\ SelDone
    /\ sel.filter.kind = "AnyOf"
    /\ Len(sel.filter.filters) = 2
    /\ ~ValidPosition(Selector(sel.filter.filters[1], sel.area), sel.pos,
                      sel.filter.filters[1])
    /\ ListedAccepts(2)
    /\ sel.result

\* a symbol of exactly one character that is alphabetic, numeric, a space or
\* one of ? ! . , : ;
SingleTextChar(symbol) ==
    /\ Len(symbol) = 1
    /\ \/ IsAlphabetic(symbol[1]) \/ IsNumeric(symbol[1]) \/ symbol[1] = " "
       \/ symbol[1] \in {"?", "!", ".", ",", ":", ";"}

\* C21: the Text filter accepts a cell exactly when its symbol is a single
\* character that is alphabetic, numeric, a space or one of ? ! . , : ;, a
\* single alphabetic character of more than one byte included, and rejects
\* every other symbol.
C21_TextAcceptsSingleTextChar ==
    (SelDone /\ sel.filter = Text /\ Contains(sel.area, sel.pos)) =>
        sel.result = SingleTextChar(sel.cell.symbol)

----------------------------------------------------------------------------
(* Leaf effects over the cells of a buffer.  A buffer is the function from *)
(* its positions to their cells.  The random generator is the cyclic       *)
(* sequence of the values it produces, each the numerator of a fraction of *)
(* RngDen, so that a copy of the generator replays the same values.        *)

RngDen == 4

\* SimpleRng::gen_f32: the next value of [0, 1) and the advanced generator
GenF32(lcg) == [val |-> Head(lcg), lcg |-> Tail(lcg) \o <<Head(lcg)>>]

\* the positions of an area, row by row
AreaPositions(area) ==
    [k \in 1..RectArea(area) |->
        <<area.x + ((k - 1) % area.width), area.y + ((k - 1) \div area.width)>>]

\* CellIterator::new(buf, area, filter): the positions of the area inside the
\* buffer whose cell the filter's predicate accepts, in iteration order
CellIterator(cells, area, filter) ==
    LET predicate == Selector(filter, area)
    IN SelectSeq(AreaPositions(area),
                 LAMBDA pos : pos \in DOMAIN cells /\ IsValid(predicate, pos, cells[pos]))

\* Shader::cell_iter
ShaderCellIter(cell_selection, cells, area) == CellIterator(cells, area, cell_selection)

\* Cell::set_char(' ') and Cell::set_symbol("X")
SetChar(cell, ch) == [cell EXCEPT !.symbol = <<ch>>]

\* the dissolve test that also holds of equal values
DissolvesCell_orEqual(alpha, r) == alpha.num * RngDen >= r * alpha.den

\* alpha > lcg.gen_f32()
DissolvesCell(alpha, r) == alpha.num * RngDen > r * alpha.den

RECURSIVE DissolveCells(_, _, _, _)
\* the filter and for_each of Dissolve::execute over the iterator's positions:
\* one value of the generator per position, blank where alpha exceeds it
DissolveCells(ps, lcg, alpha, st) ==
    IF ps = <<>>
    THEN st
    ELSE LET pos == Head(ps)
             g == GenF32(lcg)
             visited == [st EXCEPT !.visits[pos] = st.visits[pos] + 1, !.lcg = g.lcg]
         IN IF DissolvesCell(alpha, g.val)
            THEN DissolveCells(Tail(ps), g.lcg, alpha,
                               [visited EXCEPT !.cells[pos] = SetChar(st.cells[pos], " "),
                                               !.blanked = st.blanked \cup {pos}])
            ELSE DissolveCells(Tail(ps), g.lcg, alpha, visited)

\* an execute that draws from the shader's own generator
DissolveExecute_shared(lcg, cell_filter, alpha, area, cells) ==
    DissolveCells(ShaderCellIter(cell_filter, cells, area), lcg, alpha,
                  [cells |-> cells, blanked |-> {}, lcg |-> lcg,
                   visits |-> [pos \in DOMAIN cells |-> 0]])

\* Dissolve::execute, with no dissolved_style: the loop draws from a copy of
\* self.lcg; the lcg of the result is self.lcg after the call
DissolveExecute(lcg, cell_filter, alpha, area, cells) ==
    LET st == DissolveCells(ShaderCellIter(cell_filter, cells, area), lcg, alpha,
                            [cells |-> cells, blanked |-> {}, lcg |-> lcg,
                             visits |-> [pos \in DOMAIN cells |-> 0]])
    IN [st EXCEPT !.lcg = lcg]

RECURSIVE MarkCells(_, _)
\* the closure of test_cell_filter_eval: set_symbol("X") on every cell handed out
MarkCells(ps, st) ==
    IF ps = <<>>
    THEN st
    ELSE LET pos == Head(ps)
         IN MarkCells(Tail(ps),
                      [st EXCEPT !.cells[pos] = SetChar(st.cells[pos], "X"),
                                 !.blanked = st.blanked \cup {pos},
                                 !.visits[pos] = st.visits[pos] + 1])

\* execute of effect_fn((), timer, closure) with a cell selection
EffectFnExecute(cell_filter, area, cells) ==
    MarkCells(ShaderCellIter(cell_filter, cells, area),
              [cells |-> cells, blanked |-> {},
               visits |-> [pos \in DOMAIN cells |-> 0]])

\* fx::dissolve(timer), fx::coalesce(timer)
dissolve(total) == Dissolve(total, NoArea)

\* a coalesce whose timer is not reversed
coalesce_forward(total) == Dissolve(total, NoArea)

coalesce(total) == [Dissolve(total, NoArea) EXCEPT !.timer = TimerReversed(EffectTimer(total))]

\* fx::effect_fn(state, timer, closure)
effect_fn(total) == [Dissolve(total, NoArea) EXCEPT !.kind = "effect_fn"]

ScrBuffer == Rect(0, 0, 3, 1)

ScrAreas == {Rect(0, 0, 3, 1), Rect(1, 0, 2, 1), Rect(0, 0, 1, 1)}

\* a one-row buffer of the given characters
Row(chars) ==
    [pos \in PositionsOf(ScrBuffer) |-> Cell(<<chars[pos[1] + 1]>>, "Red", "Red")]

ScrCells ==
    {Row(<<"a", "#", "a">>), Row(<<"#", "#", "#">>), Row(<<"a", "a", "#">>),
     Row(<<"#", "#", "a">>)}

ScrFilters == {All, EvalCell({Cell(<<"#">>, "Red", "Red")})}

\* the generators of the seeds under test
Seeds == {<<0, 1, 2>>, <<3, 0, 2>>, <<1, 1, 3>>, <<2, 3, 0>>}

Screen(stage, cells, area, filter, lcg, total) ==
    [phase |-> "run", stage |-> stage, original |-> cells, cells |-> cells,
     area |-> area, filter |-> filter, lcg |-> lcg, seed |-> lcg, total |-> total,
     frames |-> 0, fresh |-> TRUE,
     before |-> cells, blanked |-> {}, visits |-> [pos \in DOMAIN cells |-> 0]]

InitCells ==
    /\ \E cells \in ScrCells, area \in ScrAreas, filter \in ScrFilters :
           \/ /\ scr = Screen("effect_fn", cells, area, filter, <<0>>, 1)
              /\ fx = effect_fn(1)
           \/ \E lcg \in Seeds, total \in ChildDurations :
                 /\ scr = Screen("dissolve", cells, area, filter, lcg, total)
                 /\ fx = dissolve(total)
    /\ blit = NoBlit
    /\ sel = NoSelection
    /\ delivered = 0
    /\ calls = 0
    /\ ret = NoneD
    /\ lastDelta = 0
    /\ lastArea = NoArea
    /\ prevDone = FALSE
    /\ somes = 0
    /\ op = "new"
    /\ toggles = 0
    /\ call = NoCall

\* one frame: the host renders its widgets afresh (or leaves the buffer as the
\* last frame left it) and calls effect.process(duration, buf, area)
RenderFrame(duration, fresh) ==
    /\ scr.phase = "run"
    /\ scr.frames < MaxCalls
    /\ LET rendered == IF fresh THEN scr.original ELSE scr.cells
           r == ShaderProcess(fx, duration, scr.area)
           st == IF scr.stage = "effect_fn"
                 THEN EffectFnExecute(scr.filter, r.effect.execArea, rendered)
                 ELSE DissolveExecute(scr.lcg, scr.filter, r.effect.execAlpha,
                                      r.effect.execArea, rendered)
       IN /\ fx' = r.effect
          /\ ret' = r.overflow
          /\ scr' = [scr EXCEPT !.cells = st.cells, !.blanked = st.blanked,
                                !.visits = st.visits, !.before = rendered,
                                !.lcg = IF scr.stage = "effect_fn" THEN scr.lcg ELSE st.lcg,
                                !.frames = scr.frames + 1, !.fresh = fresh]
    /\ prevDone' = DissolveDone(fx)
    /\ op' = "process"
    /\ UNCHANGED <<delivered, calls, lastDelta, lastArea, somes, toggles, blit, sel, call>>

\* the dissolve has completed: the host replaces it by fx::coalesce with the
\* same timer and the same seed
StartCoalesce ==
    /\ scr.phase = "run"
    /\ scr.stage = "dissolve"
    /\ DissolveDone(fx)
    /\ fx' = coalesce(scr.total)
    /\ scr' = [scr EXCEPT !.stage = "coalesce", !.frames = 0]
    /\ op' = "new"
    /\ UNCHANGED <<delivered, calls, ret, lastDelta, lastArea, prevDone, somes, toggles,
                   blit, sel, call>>

RenderStep == \E duration \in Deltas, fresh \in BOOLEAN : RenderFrame(duration, fresh)

NextCells == RenderStep \/ StartCoalesce

SpecCells == InitCells /\ [][NextCells]_vars

----------------------------------------------------------------------------
(* Properties of leaf effects over cells *)

\* a frame of the effect_fn effect has just been processed
MarkedFrame == scr.phase = "run" /\ scr.stage = "effect_fn" /\ scr.frames > 0

\* the cell at pos lies in the processed area and the selection holds of it
Accepted(pos) ==
    /\ Contains(scr.area, pos)
    /\ scr.filter.kind = "EvalCell" => scr.before[pos] \in scr.filter.cells

\* C22: an effect with a cell selection EvalCell(f), processed over an area,
\* leaves unchanged every cell outside the area and every cell f is false of,
\* and visits every accepted cell exactly once.
C22_OnlySelectedCellsMutated ==
    MarkedFrame =>
        \A pos \in DOMAIN scr.cells :
            IF Accepted(pos)
            THEN scr.visits[pos] = 1 /\ scr.cells[pos].symbol = <<"X">>
            ELSE scr.visits[pos] = 0 /\ scr.cells[pos] = scr.before[pos]

\* a frame over part of the buffer with one cell accepted, one cell of the
\* area rejected by f, and one cell outside the area
C22_Witness ==
    /\ MarkedFrame
    /\ scr.filter.kind = "EvalCell"
    /\ scr.area = Rect(1, 0, 2, 1)
    /\ Accepted(<<1, 0>>)
    /\ ~Accepted(<<2, 0>>)
    /\ scr.cells[<<1, 0>>].symbol = <<"X">>
    /\ scr.cells[<<0, 0>>] = scr.before[<<0, 0>>]
    /\ scr.before[<<0, 0>>].symbol = <<"#">>

\* a frame of the dissolve has just been processed on freshly rendered cells
DissolveFrame ==
    scr.phase = "run" /\ scr.stage = "dissolve" /\ scr.frames > 0 /\ scr.fresh

\* the selected cells of the frame
SelectedCells == {pos \in DOMAIN scr.cells : Accepted(pos)}

\* the cells the frame left blank
BlankCells == {pos \in DOMAIN scr.cells : scr.cells[pos].symbol = <<" ">>}

DissolveEnds ==
    DissolveFrame =>
        /\ BlankCells = scr.blanked
        /\ fx.timer.elapsed = 0 => BlankCells = {}
        /\ fx.timer.elapsed >= fx.timer.total => BlankCells = SelectedCells

DissolveGrows ==
    (/\ scr.stage = "dissolve" /\ scr'.stage = "dissolve"
     /\ scr'.frames = scr.frames + 1 /\ scr.fresh /\ scr'.fresh) =>
        scr.blanked \subseteq scr'.blanked

\* C23: a dissolve with a linear timer of total T and a fixed seed, applied
\* each frame to the same freshly rendered cells: the set of blanked cells
\* never shrinks from one frame to the next, no cell is blanked at zero elapsed
\* time, and every selected cell is blanked once the elapsed time reaches T.
C23_DissolveMonotone == []DissolveEnds /\ [][DissolveGrows]_vars

\* a third frame that blanked some of the selected cells, and a frame that
\* completed the timer and blanked them all
C23_Witness ==
    /\ DissolveFrame
    /\ scr.frames = 3
    /\ fx.timer.elapsed < fx.timer.total
    /\ BlankCells # {}
    /\ BlankCells # SelectedCells

C23_WitnessAll ==
    /\ DissolveFrame
    /\ scr.frames = 3
    /\ fx.timer.elapsed = fx.timer.total
    /\ Cardinality(BlankCells) = 3

\* the coalesce that followed the completed dissolve has completed
CoalesceDone ==
    scr.phase = "run" /\ scr.stage = "coalesce" /\ scr.frames > 0 /\ DissolveDone(fx)

OriginalSymbols == \A pos \in DOMAIN scr.cells : scr.cells[pos].symbol = scr.original[pos].symbol

\* C24 as stated: after dissolve has run to completion on a buffer and coalesce,
\* with the same timer and seed, has then run to completion on that buffer,
\* every cell's symbol equals its original symbol.
C24_RoundTripOnBuffer == CoalesceDone => OriginalSymbols

\* C24 as amended: when the host renders the cells afresh before each frame,
\* the frame that completes the coalesce following a completed dissolve shows
\* every cell's original symbol.
C24_RoundTripOnFreshFrames == (CoalesceDone /\ scr.fresh) => OriginalSymbols

\* a coalesce completed in its second fresh frame, its first having blanked cells
C24_Witness ==
    /\ CoalesceDone
    /\ scr.fresh
    /\ scr.frames = 2
    /\ scr.before = scr.original
    /\ SelectedCells # {}
    /\ OriginalSymbols

----------------------------------------------------------------------------
(* Properties of reset *)

\* the step is a reset() call on a leaf shader
ResetCall == IsLeaf(fx) /\ toggles' = toggles + 1 /\ op' # "reverse"

ResetStep ==
    ResetCall =>
        IF fx.hasTimer
        THEN /\ op' = "reset"
             /\ fx'.timer.elapsed = 0
             /\ fx'.timer.total = fx.timer.total
             /\ fx.timer.total > 0 => EffectRunning(fx')
        ELSE op' = "panic" /\ fx' = fx

\* C25: reset() on a shader that has a timer sets the timer's elapsed time
\* back to zero, and the shader is running again when its total is non-zero;
\* reset() on a shader with neither a timer nor its own reset panics.
C25_ResetRestartsOrPanics == [][ResetStep]_vars

\* a completed dissolve after reset, and the panic of a shader without timer
C25_Witness ==
    /\ fx.kind = "dissolve"
    /\ op = "reset"
    /\ calls > 0
    /\ fx.procs > 0
    /\ fx.timer.total > 0
    /\ fx.timer.elapsed = 0

C25_WitnessPanic == fx.kind = "timerless" /\ op = "panic" /\ calls > 0

TemporaryResetStep ==
    (fx.kind = "temporary" /\ op' = "reset" /\ toggles' = toggles + 1) =>
        /\ fx'.duration.elapsed = 0
        /\ Elapsed(LeafOf(fx')) = 0
        /\ (fx.duration.total > 0 /\ Total(LeafOf(fx)) > 0) => EffectRunning(fx')

\* C27: reset() returns a TemporaryEffect to its initial state: the outer
\* timer and the wrapped effect both start again from zero elapsed time, so a
\* TemporaryEffect that was done is running again after reset().
C27_TemporaryResetRestartsBoth == [][TemporaryResetStep]_vars

----------------------------------------------------------------------------
(* The constructors of fx: what they build, or that they panic, and the    *)
(* name of the effect they build.                                          *)

Motions == {"LeftToRight", "RightToLeft", "UpToDown", "DownToUp"}

\* Motion::flipped
Flipped(direction) ==
    CASE direction = "LeftToRight" -> "RightToLeft"
      [] direction = "RightToLeft" -> "LeftToRight"
      [] direction = "UpToDown" -> "DownToUp"
      [] direction = "DownToUp" -> "UpToDown"

\* Motion::flips_timer
FlipsTimer(direction) == direction \in {"RightToLeft", "DownToUp"}

\* Option<Color>::None and Option<[f32; 3]>::None
NoneC == [some |-> FALSE, val |-> "none"]

\* the outcome of a constructor that panicked: there is no effect
Panicked == [kind |-> "panic"]

HslShift(hsl_mod_fg, hsl_mod_bg, timer) ==
    [kind |-> "hsl_shift", hasTimer |-> TRUE, timer |-> timer,
     hsl_mod_fg |-> hsl_mod_fg, hsl_mod_bg |-> hsl_mod_bg]

FadeColors(fg, bg, timer) ==
    [kind |-> "fade", hasTimer |-> TRUE, timer |-> timer, fg |-> fg, bg |-> bg]

\* SweepIn::new
SweepIn(direction, timer) ==
    [kind |-> "sweep", hasTimer |-> TRUE, direction |-> direction,
     timer |-> IF FlipsTimer(direction) THEN TimerReversed(timer) ELSE timer]

SlideCell(direction, timer) ==
    [kind |-> "slide", hasTimer |-> TRUE, direction |-> direction, timer |-> timer]

\* Effect::reversed: the effect after reverse()
Reversed(e) == ShaderReverse(e)

\* a constructor that panics unless both changes are given
hsl_shift_either(hsl_fg_change, hsl_bg_change, timer) ==
    IF ~hsl_fg_change.some \/ ~hsl_bg_change.some
    THEN Panicked
    ELSE HslShift(hsl_fg_change, hsl_bg_change, timer)

hsl_shift(hsl_fg_change, hsl_bg_change, timer) ==
    IF ~hsl_fg_change.some /\ ~hsl_bg_change.some
    THEN Panicked
    ELSE HslShift(hsl_fg_change, hsl_bg_change, timer)

fade(fg, bg, timer, reverse) ==
    IF ~fg.some /\ ~bg.some
    THEN Panicked
    ELSE FadeColors(fg, bg, IF reverse THEN TimerReversed(timer) ELSE timer)

fade_to_fg(fg, timer) == fade(Some(fg), NoneC, timer, FALSE)

fade_from_fg(fg, timer) == fade(Some(fg), NoneC, timer, TRUE)

fade_to(fg, bg, timer) == fade(Some(fg), Some(bg), timer, FALSE)

fade_from(fg, bg, timer) == fade(Some(fg), Some(bg), timer, TRUE)

sweep_in(direction, timer) == SweepIn(direction, timer)

sweep_out(direction, timer) == Reversed(sweep_in(Flipped(direction), timer))

\* a slide_out that keeps the timer as given, whatever the direction
slide_out_asGiven(direction, timer) == SlideCell(direction, timer)

slide_out(direction, timer) ==
    SlideCell(direction,
              CASE direction = "LeftToRight" -> timer
                [] direction = "RightToLeft" -> TimerReversed(timer)
                [] direction = "UpToDown" -> timer
                [] direction = "DownToUp" -> TimerReversed(timer))

slide_in(direction, timer) == Reversed(slide_out(Flipped(direction), timer))

\* Dissolve::name
DissolveName(sh) == IF sh.timer.reversed THEN "coalesce" ELSE "dissolve"

\* FadeColors::name
FadeColorsName(sh) == IF sh.timer.reversed THEN "fade_from" ELSE "fade_to"

\* SweepIn::name
SweepInName(sh) ==
    IF sh.timer.reversed # FlipsTimer(sh.direction) THEN "sweep_out" ELSE "sweep_in"

\* SlideCell::name
SlideCellName(sh) ==
    IF sh.timer.reversed # FlipsTimer(sh.direction) THEN "slide_in" ELSE "slide_out"

\* Effect::name: the name of the shader
EffectName(e) ==
    CASE e.kind = "dissolve" -> DissolveName(e)
      [] e.kind = "fade" -> FadeColorsName(e)
      [] e.kind = "sweep" -> SweepInName(e)
      [] e.kind = "slide" -> SlideCellName(e)
      [] e.kind = "hsl_shift" -> "hsl_shift"

\* before the constructor call there is no effect
Unbuilt == [kind |-> "none"]

Changes == {NoneC} \cup {Some(c) : c \in Colors}

InitBuild ==
    /\ fx = Unbuilt
    /\ call = NoCall
    /\ delivered = 0
    /\ calls = 0
    /\ ret = NoneD
    /\ lastDelta = 0
    /\ lastArea = NoArea
    /\ prevDone = FALSE
    /\ somes = 0
    /\ op = "new"
    /\ toggles = 0
    /\ blit = NoBlit
    /\ sel = NoSelection
    /\ scr = NoScreen

\* the host makes the constructor call c; a panic ends the run with no effect
Construct(c, built) ==
    /\ call = NoCall
    /\ call' = c
    /\ IF built = Panicked
       THEN fx' = fx /\ op' = "panic"
       ELSE fx' = built /\ op' = "new"
    /\ UNCHANGED <<delivered, calls, ret, lastDelta, lastArea, prevDone, somes, toggles,
                   blit, sel, scr>>

CallHslShift ==
    \E fg \in Changes, bg \in Changes, total \in Durations :
        Construct([fn |-> "hsl_shift", fg |-> fg, bg |-> bg],
                  hsl_shift(fg, bg, EffectTimer(total)))

CallFade ==
    \E fg \in Changes, bg \in Changes, total \in Durations, reverse \in BOOLEAN :
        Construct([fn |-> "fade", fg |-> fg, bg |-> bg, reverse |-> reverse],
                  fade(fg, bg, EffectTimer(total), reverse))

\* the host calls one of the public constructors of the paired families
CallPaired ==
    \E fg \in Colors, bg \in Colors, direction \in Motions, total \in Durations :
        LET timer == EffectTimer(total)
        IN \/ Construct([fn |-> "fade_to"], fade_to(fg, bg, timer))
           \/ Construct([fn |-> "fade_to"], fade_to_fg(fg, timer))
           \/ Construct([fn |-> "fade_from"], fade_from(fg, bg, timer))
           \/ Construct([fn |-> "fade_from"], fade_from_fg(fg, timer))
           \/ Construct([fn |-> "sweep_in", direction |-> direction],
                        sweep_in(direction, timer))
           \/ Construct([fn |-> "sweep_out", direction |-> direction],
                        sweep_out(direction, timer))
           \/ Construct([fn |-> "slide_in", direction |-> direction],
                        slide_in(direction, timer))
           \/ Construct([fn |-> "slide_out", direction |-> direction],
                        slide_out(direction, timer))
           \/ Construct([fn |-> "dissolve"], dissolve(total))
           \/ Construct([fn |-> "coalesce"], coalesce(total))

\* the host reverses the effect it built
ReverseBuilt ==
    /\ call # NoCall
    /\ op # "panic"
    /\ toggles < MaxToggles
    /\ fx' = Reversed(fx)
    /\ toggles' = toggles + 1
    /\ op' = "reverse"
    /\ UNCHANGED <<delivered, calls, ret, lastDelta, lastArea, prevDone, somes,
                   blit, sel, scr, call>>

NextBuild == CallHslShift \/ CallFade \/ CallPaired \/ ReverseBuilt

SpecBuild == InitBuild /\ [][NextBuild]_vars

----------------------------------------------------------------------------
(* Properties of the constructors *)

\* C26: hsl_shift with neither a foreground nor a background change, and fade
\* with neither a foreground nor a background color, panic at construction and
\* return no effect; with at least one of the two present the effect is built.
C26_ConstructorNeedsOneColor ==
    call.fn \in {"hsl_shift", "fade"} =>
        IF ~call.fg.some /\ ~call.bg.some
        THEN op = "panic" /\ fx = Unbuilt
        ELSE /\ op # "panic"
             /\ fx.kind = call.fn
             /\ call.fn = "hsl_shift" => fx.hsl_mod_fg = call.fg /\ fx.hsl_mod_bg = call.bg
             /\ call.fn = "fade" => fx.fg = call.fg /\ fx.bg = call.bg

C26_Witness ==
    call.fn = "hsl_shift" /\ ~call.fg.some /\ ~call.bg.some /\ op = "panic"

C26_WitnessFade ==
    call.fn = "fade" /\ ~call.fg.some /\ ~call.bg.some /\ op = "panic"

C26_WitnessBuilt ==
    call.fn = "fade" /\ call.fg.some /\ ~call.bg.some /\ fx.kind = "fade" /\ op = "new"

PairedName(name) ==
    CASE name = "fade_to" -> "fade_from"
      [] name = "fade_from" -> "fade_to"
      [] name = "sweep_in" -> "sweep_out"
      [] name = "sweep_out" -> "sweep_in"
      [] name = "slide_in" -> "slide_out"
      [] name = "slide_out" -> "slide_in"
      [] name = "dissolve" -> "coalesce"
      [] name = "coalesce" -> "dissolve"

PairedFamilies ==
    {"fade_to", "fade_from", "sweep_in", "sweep_out", "slide_in", "slide_out",
     "dissolve", "coalesce"}

\* C30: an effect built by a constructor of a paired family is named after the
\* constructor, for every direction; reversing it once gives the name of the
\* paired variant, reversing it twice the original name.
C30_NamesFollowDirection ==
    call.fn \in PairedFamilies =>
        EffectName(fx) = IF toggles % 2 = 0 THEN call.fn ELSE PairedName(call.fn)

C30_Witness ==
    /\ call.fn = "slide_in"
    /\ call.direction = "RightToLeft"
    /\ toggles = 1
    /\ EffectName(fx) = "slide_out"

C30_WitnessTwice ==
    call.fn = "sweep_out" /\ call.direction = "DownToUp" /\ toggles = 2 /\ EffectName(fx) = "sweep_out"

----------------------------------------------------------------------------
(* A host driving a ping-pong, a delayed effect or a sequence of three *)

RepeatModes ==
    {Times(1), Times(2)} \cup {DurationMode(d) : d \in ChildDurations}

Composed ==
    {<<[fn |-> "ping_pong"], ping_pong(e)>> : e \in Children}
    \cup {<<[fn |-> "delay", duration |-> d], delay(d, e)>> :
              d \in ChildDurations, e \in Children}
    \cup {<<[fn |-> "sequence"], sequence(<<a, b, c>>)>> :
              a \in Children, b \in Children, c \in Children}
    \cup {<<[fn |-> "repeat", mode |-> m], repeat(e, m)>> :
              e \in Children, m \in RepeatModes}
    \cup {<<[fn |-> "repeat", mode |-> Forever], repeating(e)>> : e \in Children}
    \cup {<<[fn |-> "prolong_start", duration |-> d], prolong_start(d, e)>> :
              d \in ChildDurations, e \in Children}

InitCompose ==
    /\ \E c \in Composed : call = c[1] /\ fx = c[2]
    /\ delivered = 0
    /\ calls = 0
    /\ ret = NoneD
    /\ lastDelta = 0
    /\ lastArea = NoArea
    /\ prevDone = FALSE
    /\ somes = 0
    /\ op = "new"
    /\ toggles = 0
    /\ blit = NoBlit
    /\ sel = NoSelection
    /\ scr = NoScreen

NextCompose == ProcessStep

SpecCompose == InitCompose /\ [][NextCompose]_vars

----------------------------------------------------------------------------
(* Properties of ping_pong, delay and sequence *)

\* C28: ping_pong(e) for an effect e of duration d is not done while the
\* delivered time is below 2d and is done once it has reached 2d; the child is
\* reversed exactly once, when the forward pass completes, and the surplus of
\* that call is carried into the backward pass.
C28_PingPongTakesTwice ==
    call.fn = "ping_pong" =>
        LET d == Total(fx.effect)
        IN /\ EffectDone(fx) <=> delivered >= 2 * d
           /\ fx.reversals = IF delivered >= d THEN 1 ELSE 0
           /\ fx.effect.timer.reversed <=> delivered >= d
           /\ Elapsed(fx.effect) = IF delivered < d THEN delivered
                                                   ELSE Min(delivered - d, d)

C28_Witness ==
    /\ call.fn = "ping_pong"
    /\ Total(fx.effect) = 2
    /\ delivered = 3
    /\ lastDelta = 2
    /\ fx.reversals = 1
    /\ Elapsed(fx.effect) = 1
    /\ EffectRunning(fx)

C28_WitnessDone ==
    call.fn = "ping_pong" /\ Total(fx.effect) = 2 /\ delivered = 4 /\ EffectDone(fx)

\* the effect that delay was given
Delayed == fx.effects[CHOOSE i \in 1..Len(fx.effects) : fx.effects[i].kind # "sleep"]

\* C29: in a sequence the effect at index i+1 is never processed before the
\* effect at index i is done, and the sequence is done only once the last
\* effect is done; delay(d, e) does not advance e before the delivered time
\* has reached d.
C29_SequenceRunsInOrder ==
    call.fn \in {"sequence", "delay"} =>
        /\ \A i \in 1..(Len(fx.effects) - 1) :
               fx.effects[i + 1].procs > 0 => EffectDone(fx.effects[i])
        /\ EffectDone(fx) => EffectDone(fx.effects[Len(fx.effects)])
        /\ (call.fn = "delay" /\ delivered < call.duration) =>
               Delayed.procs = 0 /\ Elapsed(Delayed) = 0

C29_Witness ==
    /\ call.fn = "delay"
    /\ call.duration = 2
    /\ delivered = 1
    /\ calls = 1
    /\ fx.effects[1].procs = 1
    /\ fx.effects[2].procs = 0

C29_WitnessStarted ==
    /\ call.fn = "delay"
    /\ call.duration = 2
    /\ delivered = 3
    /\ Elapsed(fx.effects[2]) = 1
    /\ fx.effects[2].procs = 1

C29_WitnessThird ==
    call.fn = "sequence" /\ fx.effects[3].procs > 0 /\ fx.effects[2].procs > 0 /\ EffectDone(fx)

----------------------------------------------------------------------------
(* reverse() on a TemporaryEffect, and a host that reverses while it runs *)

RECURSIVE EffectReverse(_)

\* a reverse that also turns the outer timer around
TemporaryReverse_outer(e) ==
    [e EXCEPT !.effect = EffectReverse(e.effect), !.duration = TimerReversed(e.duration)]

\* TemporaryEffect::reverse: self.effect.reverse()
TemporaryReverse(e) == [e EXCEPT !.effect = EffectReverse(e.effect)]

\* Effect::reverse: dispatch to the shader's reverse
EffectReverse(e) ==
    CASE IsLeaf(e) -> ShaderReverse(e)
      [] e.kind = "temporary" -> TemporaryReverse(e)
      [] e.kind = "never_complete" -> [e EXCEPT !.effect = EffectReverse(e.effect)]

InitTemporary ==
    /\ \E d \in Durations :
           \/ \E e \in Wrapped : fx = with_duration(d, e)
           \/ \E e \in Leaves : fx = timed_never_complete(d, e)
    /\ delivered = 0
    /\ calls = 0
    /\ ret = NoneD
    /\ lastDelta = 0
    /\ lastArea = NoArea
    /\ prevDone = FALSE
    /\ somes = 0
    /\ op = "new"
    /\ toggles = 0
    /\ blit = NoBlit
    /\ sel = NoSelection
    /\ scr = NoScreen
    /\ call = NoCall

\* the host calls reverse() on the TemporaryEffect
ReverseTemporary ==
    /\ fx.kind = "temporary"
    /\ toggles < MaxToggles
    /\ fx' = TemporaryReverse(fx)
    /\ toggles' = toggles + 1
    /\ op' = "reverse"
    /\ UNCHANGED <<delivered, calls, ret, lastDelta, lastArea, prevDone, somes,
                   blit, sel, scr, call>>

NextReverse == ProcessStep \/ ReverseTemporary

SpecReverse == InitTemporary /\ [][NextReverse]_vars

----------------------------------------------------------------------------
(* Properties of reverse *)

\* the outer time box has elapsed exactly when its total has been delivered
TimeBoxOnSchedule == TimerDone(fx.duration) <=> delivered >= fx.duration.total

TemporaryReverseStep ==
    op' = "reverse" =>
        /\ fx'.duration = fx.duration
        /\ LeafOf(fx').timer.reversed = ~LeafOf(fx).timer.reversed
        /\ Elapsed(LeafOf(fx')) = Elapsed(LeafOf(fx))

\* C39: reverse() on a TemporaryEffect reverses only the wrapped effect: the
\* outer timer's elapsed time, total and direction are unchanged, so the outer
\* time box elapses at the same moment with and without the reverse.
C39_ReverseKeepsTimeBox == []TimeBoxOnSchedule /\ [][TemporaryReverseStep]_vars

C39_Witness ==
    /\ op = "reverse"
    /\ calls > 0
    /\ fx.duration.total = 2
    /\ fx.duration.elapsed = 1
    /\ ~fx.duration.reversed
    /\ LeafOf(fx).timer.reversed

C39_WitnessElapsed ==
    /\ op = "process"
    /\ toggles = 1
    /\ fx.duration.total = 3
    /\ delivered = 3
    /\ lastDelta = 1
    /\ TimerDone(fx.duration)
    /\ EffectRunning(fx.effect)

\* the alphas a and b are complements: a + b = 1
Complement(a, b) == a.num * b.den + b.num * a.den = a.den * b.den

\* reversing a timed leaf shader twice gives back the shader, alpha and done
ReverseTwice ==
    (IsLeaf(fx) /\ fx.hasTimer) =>
        LET twice == ShaderReverse(ShaderReverse(fx))
        IN /\ twice = fx
           /\ TimerAlpha(twice.timer) = TimerAlpha(fx.timer)
           /\ DissolveDone(twice) = DissolveDone(fx)
           /\ TimerReversed(TimerReversed(fx.timer)) = fx.timer

\* one reverse() of a timed leaf shader toggles the direction and nothing else
ReverseOnce ==
    (IsLeaf(fx) /\ fx.hasTimer /\ op' = "reverse" /\ toggles' = toggles + 1) =>
        /\ fx' = [fx EXCEPT !.timer.reversed = ~fx.timer.reversed]
        /\ fx'.timer.elapsed = fx.timer.elapsed
        /\ fx'.timer.total = fx.timer.total
        /\ DissolveDone(fx') = DissolveDone(fx)
        /\ fx.timer.total > 0 => Complement(TimerAlpha(fx'.timer), TimerAlpha(fx.timer))

\* C34: reversing is an involution: a single reverse changes only the
\* direction flag, not elapsed or total, and reversing twice yields the same
\* alpha, done state and elapsed/total as the original at every elapsed value.
C34_ReverseIsInvolution == []ReverseTwice /\ [][ReverseOnce]_vars

C34_Witness ==
    /\ fx.kind = "dissolve"
    /\ op = "reverse"
    /\ toggles = 2
    /\ fx.timer.total = 2
    /\ fx.timer.elapsed = 1
    /\ ~fx.timer.reversed

----------------------------------------------------------------------------
(* Determinism of the dissolve *)

\* a frame of a dissolve or coalesce has been processed
RandomFrame ==
    scr.phase = "run" /\ scr.stage \in {"dissolve", "coalesce"} /\ scr.frames > 0

\* the generator state of the shader is the seed, and the frame blanked what
\* the seed, the alpha and the input cells alone determine
SameGenerator ==
    RandomFrame =>
        /\ scr.lcg = scr.seed
        /\ scr.blanked = DissolveExecute(scr.seed, scr.filter, fx.execAlpha,
                                         fx.execArea, scr.before).blanked

\* two frames in a row at the same alpha over the same input cells
SameFrameAgain ==
    (/\ RandomFrame
     /\ scr'.stage = scr.stage
     /\ scr'.frames = scr.frames + 1
     /\ fx'.execAlpha = fx.execAlpha
     /\ scr'.before = scr.before) => scr'.blanked = scr.blanked

\* C35: executing a dissolve never advances the generator state stored in the
\* shader, so two executions at the same alpha over identical input cells
\* blank exactly the same set of cells, however many frames came in between.
C35_DissolveIsDeterministic == []SameGenerator /\ [][SameFrameAgain]_vars

\* three frames on fresh cells that advanced the timer by one tick in all, so
\* that one alpha was executed at least twice, over a two-cell area
C35_Witness ==
    /\ RandomFrame
    /\ scr.stage = "dissolve"
    /\ scr.frames = 3
    /\ scr.fresh
    /\ scr.area = Rect(1, 0, 2, 1)
    /\ fx.timer.total = 2
    /\ fx.timer.elapsed = 1
    /\ Cardinality(scr.blanked) = 1

----------------------------------------------------------------------------
(* Properties of the effective area of a filter *)

AreaModifying == {"Inner", "Outer", "Layout"}

\* a composite of one margin filter and one layout filter has been tested
MarginWithLayout ==
    /\ SelDone
    /\ sel.filter.kind \in {"AllOf", "AnyOf"}
    /\ Len(sel.filter.filters) = 2
    /\ \E i \in 1..2 : /\ sel.filter.filters[i].kind \in {"Inner", "Outer"}
                        /\ sel.filter.filters[3 - i].kind = "Layout"

\* C36: when an Outer (or Inner) margin filter is combined with a Layout
\* filter in one composite, the accepted positions are the ones the last
\* area-modifying filter of the list determines alone.
C36_LastAreaFilterWins == MarginWithLayout => sel.result = ListedAccepts(2)

RECURSIVE TestsContainment(_)
\* the position test of the filter includes containment in the area it is
\* resolved against
TestsContainment(filter) ==
    CASE filter.kind \in {"All", "Text", "FgColor", "BgColor", "EvalCell", "Inner", "Layout"}
           -> TRUE
      [] filter.kind = "AllOf"
           -> \E i \in DOMAIN filter.filters : TestsContainment(filter.filters[i])
      [] filter.kind = "AnyOf"
           -> \A i \in DOMAIN filter.filters : TestsContainment(filter.filters[i])
      [] OTHER -> FALSE

Outside == SelDone /\ ~Contains(sel.area, sel.pos)

\* C37 as stated: for every filter, every area and every cell, is_valid is
\* false for each position that is not contained in the root area.
C37_NothingOutsideRootArea == Outside => ~sel.result

\* C37 as amended: is_valid is false for each position outside the root area
\* when the filter's position test is area containment: All, Text, FgColor,
\* BgColor, EvalCell, Inner, Layout, an AllOf with such a filter in its list
\* and an AnyOf of such filters only.
C37_ContainmentFiltersStayInside ==
    (Outside /\ TestsContainment(sel.filter)) => ~sel.result

\* a cell that passes the content test of a composite with a containment
\* filter, at a position outside the root area
C37_Witness ==
    /\ Outside
    /\ sel.filter = AllOf(<<FgColor("Red"), NoneOf(<<Inner(Margin(1, 1))>>)>>)
    /\ sel.area = Rect(0, 0, 1, 1)
    /\ sel.pos = <<3, 2>>
    /\ sel.cell.fg = "Red"
    /\ ~sel.result

C37_WitnessOuter ==
    /\ Outside
    /\ sel.filter = Outer(Margin(1, 1))
    /\ sel.area = Rect(0, 0, 1, 1)
    /\ sel.pos = <<3, 2>>
    /\ sel.result

\* C38: selector(area) never fails: on a Layout filter whose idx is not
\* smaller than the number of slots, and on a filter whose effective area is
\* empty, it yields a predicate that selects no cell.
C38_ResolvingNeverFails ==
    /\ sel.phase # "panic"
    /\ (SelDone /\ RectArea(sel.predicate.inner_area) = 0) => ~sel.result

C38_WitnessPanic ==
    /\ sel.phase = "panic"
    /\ sel.filter = Layout(LayoutOf("horizontal", 1), 2)
    /\ sel.area = Rect(0, 0, 3, 3)

C38_WitnessEmpty ==
    /\ SelDone
    /\ sel.filter = Inner(Margin(1, 1))
    /\ sel.area = Rect(0, 0, 1, 1)
    /\ sel.pos = <<0, 0>>
    /\ sel.predicate.inner_area = ZeroRect
    /\ ~sel.result

C36_WitnessCombined ==
    /\ SelDone
    /\ sel.filter = AllOf(<<Layout(LayoutOf("horizontal", 1), 1), Outer(Margin(1, 1))>>)
    /\ sel.area = Rect(0, 0, 3, 3)
    /\ sel.pos = <<0, 0>>
    /\ ~sel.result
    /\ ListedAccepts(2)

----------------------------------------------------------------------------
(* Properties of a zero-duration timer *)

\* the alpha a timer ends at
FinalAlpha(t) == [num |-> IF t.reversed THEN 0 ELSE 1, den |-> 1]

\* every timer gives an alpha without dividing by zero, and a timer of total
\* zero is done and at its final alpha
ZeroTimerDone ==
    \A t \in Timers(fx) :
        /\ TimerAlpha(t).den > 0
        /\ t.total = 0 => TimerDone(t) /\ TimerAlpha(t) = FinalAlpha(t)

\* a process call on a shader with a zero timer, alone or wrapped
ZeroTimerFrame ==
    /\ fx.kind \in {"dissolve", "never_complete", "temporary"}
    /\ LeafOf(fx).hasTimer
    /\ LeafOf(fx).timer.total = 0
    /\ op' = "process"
    /\ calls' = calls + 1

ZeroTimerExecutes ==
    ZeroTimerFrame =>
        /\ LeafOf(fx').execs = LeafOf(fx).execs + 1
        /\ LeafOf(fx').execAlpha = FinalAlpha(LeafOf(fx).timer)
        /\ LeafOf(fx').timer = LeafOf(fx).timer

\* C33: a timer with total duration zero is done immediately and its alpha is
\* 1 (0 if reversed); computing alpha or processing it never divides by zero,
\* so a shader built on a zero timer, alone or under never_complete, executes
\* with its final alpha on every frame.
C33_ZeroTimerIsFinal == []ZeroTimerDone /\ [][ZeroTimerExecutes]_vars

\* the third frame of with_duration(3, never_complete(shader on a zero timer))
C33_Witness ==
    /\ fx.kind = "temporary"
    /\ fx.effect.kind = "never_complete"
    /\ fx.duration.total = 3
    /\ LeafOf(fx).timer.total = 0
    /\ calls = 3
    /\ LeafOf(fx).execs = 3
    /\ LeafOf(fx).execAlpha = AlphaOne
    /\ EffectRunning(fx)

C33_WitnessReversed ==
    /\ fx.kind = "dissolve"
    /\ fx.timer.total = 0
    /\ fx.timer.reversed
    /\ op = "process"
    /\ fx.execAlpha = [num |-> 0, den |-> 1]

----------------------------------------------------------------------------
(* Properties of repeat and prolong_start *)

\* a process call on a repeat
RepeatFrame == call.fn = "repeat" /\ op' = "process" /\ calls' = calls + 1

\* the call completes a cycle of the child
Completes == EffectRunning(fx) /\ Elapsed(fx.effect) + lastDelta' >= Total(fx.effect)

RepeatCounts ==
    RepeatFrame =>
        IF Completes
        THEN fx'.completions = fx.completions + 1 /\ Elapsed(fx'.effect) = 0
        ELSE /\ fx'.completions = fx.completions
             /\ EffectRunning(fx) => Elapsed(fx'.effect) = Elapsed(fx.effect) + lastDelta'

RepeatStops ==
    call.fn = "repeat" =>
        CASE call.mode.mode = "Forever" -> EffectRunning(fx)
          [] call.mode.mode = "Times" ->
                /\ EffectDone(fx) <=> fx.completions = call.mode.n
                /\ fx.completions <= call.mode.n
          [] call.mode.mode = "Duration" -> EffectDone(fx) <=> delivered >= call.mode.n

\* C31: repeat(e, Times(n)) resets the child each time it completes and is
\* done after exactly n completions, not before; repeat(e, Duration(d)) is
\* done once the delivered time reaches d, even in the middle of a cycle;
\* repeat(e, Forever) is never done.
C31_RepeatStopsByMode == []RepeatStops /\ [][RepeatCounts]_vars

\* the second completion of the child ends a repeat of two times
C31_Witness ==
    /\ call.fn = "repeat"
    /\ call.mode = Times(2)
    /\ Total(fx.effect) = 2
    /\ fx.completions = 2
    /\ ~prevDone
    /\ EffectDone(fx)
    /\ Elapsed(fx.effect) = 0

\* a repeat for a duration of 3 that stopped in the middle of the second cycle
C31_WitnessMidCycle ==
    /\ call.fn = "repeat"
    /\ call.mode = DurationMode(3)
    /\ Total(fx.effect) = 2
    /\ fx.completions = 1
    /\ Elapsed(fx.effect) = 1
    /\ delivered = 3
    /\ EffectDone(fx)

C31_WitnessForever ==
    call.fn = "repeat" /\ call.mode = Forever /\ fx.completions = 3 /\ calls = 4

\* C32: prolong_start(d, e) holds e at zero elapsed time while the delivered
\* time is below d, processing it with zero duration; afterwards e runs, and
\* the whole is done exactly when the delivered time reaches d plus e's own
\* duration.
C32_ProlongStartHolds ==
    call.fn = "prolong_start" =>
        LET d == call.duration
            e == fx.effect
        IN /\ delivered < d => Elapsed(e) = 0 /\ e.fed = 0 /\ e.procs = calls
           /\ delivered >= d => Elapsed(e) = Min(delivered - d, Total(e))
           /\ EffectDone(fx) <=> delivered >= d + Total(e)

\* two calls within the extra duration, then a call that passes it by one tick
C32_Witness ==
    /\ call.fn = "prolong_start"
    /\ call.duration = 2
    /\ Total(fx.effect) = 2
    /\ calls = 3
    /\ delivered = 3
    /\ lastDelta = 2
    /\ fx.effect.procs = 3
    /\ fx.effect.fed = 1
    /\ Elapsed(fx.effect) = 1
    /\ EffectRunning(fx)

C32_WitnessDone ==
    /\ call.fn = "prolong_start"
    /\ call.duration = 2
    /\ Total(fx.effect) = 2
    /\ delivered = 4
    /\ ~prevDone
    /\ EffectDone(fx)

====
